---- MODULE Spec2Model ----
(***************************************************************************)
(* The resource bookkeeping of haldvance.                                   *)
(*  - The span allocator `Blocks<Id, MAX_BLOCKS>` of haldvance_block, as    *)
(*    the sprite tile allocator uses it (SpecBlocks), and its public        *)
(*    `cleanup` on any entry list (SpecCleanup).                            *)
(*  - `Bitset128` of haldvance_utils (SpecBitset).                          *)
(*  - The object slots of `object::Allocator`, on the `Bitset128` of        *)
(*    haldvance's own `bitset` module (SpecObjects).                        *)
(*  - `layer::Handle` and `object::Handle`, which copy a hardware record,   *)
(*    change the copy and write it back (SpecHandle).                       *)
(*  - The frame loop `full_game` and the display control (SpecGame).        *)
(*  - Video memory as the tile modules write it: text tile maps             *)
(*    (SpecTextMap), affine tile maps (SpecAffineMap), character base       *)
(*    blocks (SpecTileset), sprite tiles (SpecSprite), and what a           *)
(*    `Windowed` drawable hands to its sink (SpecWindowed).                 *)
(*  - The allocator under successful inserts and removes only             *)
(*    (SpecRecycle), the tile slice of a gbassets `Image` (SpecImage), and  *)
(*    the object slots of the game's `Space` state (SpecSpace).             *)
(* Every public method is one action.  While the result of a call is with   *)
(* its caller, the call, what it returned and the state it was made on are  *)
(* kept (`op`, `ret`, `prev`; `bcall`, `bret`, `bprev`; `mcall`).           *)
(***************************************************************************)
EXTENDS Integers, Sequences, FiniteSets, Bags, TLC

\* ---- bounds of the model ------------------------------------------------
MaxId == 3
MaxSize == 2
MAX_BLOCKS == 3
FullSize == 4

\* ---- program constants --------------------------------------------------
\* sizes and offsets are u16
U16 == 65536

Ids == 1..MaxId
Sizes == 1..MaxSize

\* Option::None of an offset, of an index
None == -1

\* the span allocator: its entry list and the call whose result is with its caller
VARIABLES blocks, op, ret, prev

\* a Bitset128: the indices of its set bits and the call whose result is with
\* its caller
VARIABLES bits, bcall, bret, bprev

\* the object slots: the Slot values that callers hold, and the indices of
\* the Slot values that were dropped without a call of free
VARIABLES slots, leaked

\* the hardware records of a background layer and of an object, the handle
\* on one of them, the setters called on it, how often the handle's record
\* was read and written, and what the last setter returned
VARIABLES bg, oam, handle, calls, access, hret

\* full_game: where its loop stands, the ConsoleState fields frame and
\* input, the display-control register, the content of video memory, the
\* Control values that exist, the loop's video_control and enter_video_mode,
\* and what has run in the frame so far
VARIABLES pc, frame, input, dispcnt, vram, controls, video_control,
          enter_video_mode, events

\* video memory as the tile modules see it: the cells that were written with
\* what they hold, the call on it whose effect is with its caller together
\* with the number of calls made, and whether that call panicked
VARIABLES mem, mcall, mpanic

\* the game's Space state: whose turn it is (update or draw pass), the
\* player's Slot, the bullet and item lists with their new-entry flags, and
\* the number of frames played
VARIABLE space

blocks_vars == <<blocks, op, ret, prev>>

bitset_vars == <<bits, bcall, bret, bprev>>

object_vars == <<slots, leaked>>

handle_vars == <<bg, oam, handle, calls, access, hret>>

game_vars ==
    <<pc, frame, input, dispcnt, vram, controls, video_control,
      enter_video_mode, events>>

\* the variables of the specifications that follow the handles
vmem_vars == <<mem, mcall, mpanic>>

rest_vars == <<game_vars, vmem_vars, space>>

vars == <<blocks_vars, bitset_vars, object_vars, handle_vars, rest_vars>>

\* what a specification of the span allocator leaves alone
not_blocks == <<bitset_vars, object_vars, handle_vars, rest_vars>>

\* ---- Block --------------------------------------------------------------
Gap(gap_size) == [full |-> FALSE, id |-> 0, size |-> gap_size]

Full(id, size) == [full |-> TRUE, id |-> id, size |-> size]

is_gap(block) == ~block.full

has_id(block, id) == block.full /\ block.id = id

\* sum of the sizes of the first n entries, in u16 arithmetic
RECURSIVE sum_sizes(_, _)
sum_sizes(b, n) ==
    IF n = 0 THEN 0 ELSE (sum_sizes(b, n - 1) + b[n].size) % U16

\* index of the first entry that holds id, 0 when there is none
index_of(b, id) ==
    IF \E i \in 1..Len(b) : has_id(b[i], id)
    THEN CHOOSE i \in 1..Len(b) :
            has_id(b[i], id) /\ \A j \in 1..(i - 1) : ~has_id(b[j], id)
    ELSE 0

\* ---- Blocks -------------------------------------------------------------
new == <<>>

\* index of the first gap with gap_size >= size, 0 when there is none
first_gap_of_size(b, size) ==
    IF \E i \in 1..Len(b) : is_gap(b[i]) /\ b[i].size >= size
    THEN CHOOSE i \in 1..Len(b) :
            /\ is_gap(b[i]) /\ b[i].size >= size
            /\ \A j \in 1..(i - 1) : ~(is_gap(b[j]) /\ b[j].size >= size)
    ELSE 0

\* first loop of cleanup: from the last entry to the first, every gap gets the
\* sum of its own size and of the gaps that follow it directly
RECURSIVE cleanup_sizes(_, _)
cleanup_sizes(b, i) ==
    \* the value of cur_gap after the entries i..Len(b) were visited
    IF i > Len(b) THEN 0
    ELSE IF b[i].full THEN 0
    ELSE (cleanup_sizes(b, i + 1) + b[i].size) % U16

cleanup_summed(b) ==
    [i \in 1..Len(b) |-> IF b[i].full THEN b[i] ELSE Gap(cleanup_sizes(b, i))]

\* second loop of cleanup: retain drops every gap that follows a gap
RECURSIVE retain_first_gaps(_, _)
retain_first_gaps(b, n) ==
    IF n = 0 THEN <<>>
    ELSE IF n > 1 /\ is_gap(b[n - 1]) /\ is_gap(b[n])
         THEN retain_first_gaps(b, n - 1)
         ELSE Append(retain_first_gaps(b, n - 1), b[n])

\* a cleanup that drops the gaps that follow a gap without adding their sizes
cleanup_without_sum(b) == retain_first_gaps(b, Len(b))

\* a first loop that goes from the first entry to the last (no .rev())
RECURSIVE cleanup_sizes_forward(_, _)
cleanup_sizes_forward(b, i) ==
    IF i < 1 THEN 0
    ELSE IF b[i].full THEN 0
    ELSE (cleanup_sizes_forward(b, i - 1) + b[i].size) % U16

\* a cleanup whose first loop goes forward: the last gap of a run gets the sum
cleanup_sums_forward(b) ==
    retain_first_gaps(
        [i \in 1..Len(b) |->
            IF b[i].full THEN b[i] ELSE Gap(cleanup_sizes_forward(b, i))],
        Len(b))

\* the removal of a gap at the end is commented out in the source
cleanup(b) == retain_first_gaps(cleanup_summed(b), Len(b))

insert_at(b, index, block) ==
    SubSeq(b, 1, index - 1) \o <<block>> \o SubSeq(b, index, Len(b))

\* a replace_gap whose split leaves the whole gap behind the new entry
replace_gap_keeps_gap_size(b, id, size) ==
    LET to_insert == Full(id, size)
        index == first_gap_of_size(b, size)
    IN  IF index # 0 /\ b[index].size > size
        THEN LET updated == [b EXCEPT ![index] = to_insert]
                 gap == Gap(b[index].size)
             IN  IF Len(updated) >= MAX_BLOCKS
                 THEN [blocks |-> updated, index |-> None]
                 ELSE [blocks |-> cleanup(insert_at(updated, index + 1, gap)),
                       index |-> index]
        ELSE IF index # 0
        THEN [blocks |-> [b EXCEPT ![index] = to_insert], index |-> index]
        ELSE IF Len(b) >= MAX_BLOCKS
        THEN [blocks |-> b, index |-> None]
        ELSE [blocks |-> Append(b, to_insert), index |-> Len(b) + 1]

\* replace_gap: the entry list afterwards and the index of the new entry
\* (None when try_insert or try_push found the list full)
replace_gap(b, id, size) ==
    LET to_insert == Full(id, size)
        index == first_gap_of_size(b, size)
    IN  IF index # 0 /\ b[index].size > size
        THEN LET updated == [b EXCEPT ![index] = to_insert]
                 gap == Gap(b[index].size - size)
             IN  IF Len(updated) >= MAX_BLOCKS
                 THEN [blocks |-> updated, index |-> None]
                 ELSE [blocks |-> cleanup(insert_at(updated, index + 1, gap)),
                       index |-> index]
        ELSE IF index # 0
        THEN [blocks |-> [b EXCEPT ![index] = to_insert], index |-> index]
        ELSE IF Len(b) >= MAX_BLOCKS
        THEN [blocks |-> b, index |-> None]
        ELSE [blocks |-> Append(b, to_insert), index |-> Len(b) + 1]

offset_of(b, id) ==
    IF index_of(b, id) = 0 THEN None ELSE sum_sizes(b, index_of(b, id) - 1)

\* an insert_sized that does not look for the id first
insert_sized_without_lookup(b, id, size) ==
    LET placed == replace_gap(b, id, size)
        offset == sum_sizes(placed.blocks, placed.index - 1)
    IN  IF placed.index = None
        THEN [blocks |-> placed.blocks, ret |-> None]
        ELSE [blocks |-> placed.blocks,
              ret |-> IF (offset + size) % U16 <= FullSize THEN offset ELSE None]

\* an insert_sized that sums the sizes up to and with the new entry
insert_sized_counts_new_entry(b, id, size) ==
    LET already_existing == offset_of(b, id)
        placed == replace_gap(b, id, size)
        offset == sum_sizes(placed.blocks, placed.index)
    IN  IF already_existing # None
        THEN [blocks |-> b, ret |-> already_existing]
        ELSE IF placed.index = None
        THEN [blocks |-> placed.blocks, ret |-> None]
        ELSE [blocks |-> placed.blocks,
              ret |-> IF (offset + size) % U16 <= FullSize THEN offset ELSE None]

\* an insert_sized that gives the entry list back as it was when the new
\* entry does not fit below full_size
insert_sized_rolls_back(b, id, size) ==
    LET already_existing == offset_of(b, id)
        placed == replace_gap(b, id, size)
        offset == sum_sizes(placed.blocks, placed.index - 1)
    IN  IF already_existing # None
        THEN [blocks |-> b, ret |-> already_existing]
        ELSE IF placed.index = None
        THEN [blocks |-> placed.blocks, ret |-> None]
        ELSE IF (offset + size) % U16 <= FullSize
        THEN [blocks |-> placed.blocks, ret |-> offset]
        ELSE [blocks |-> b, ret |-> None]

insert_sized(b, id, size) ==
    LET already_existing == offset_of(b, id)
        placed == replace_gap(b, id, size)
        offset == sum_sizes(placed.blocks, placed.index - 1)
    IN  IF already_existing # None
        THEN [blocks |-> b, ret |-> already_existing]
        ELSE IF placed.index = None
        THEN [blocks |-> placed.blocks, ret |-> None]
        ELSE [blocks |-> placed.blocks,
              ret |-> IF (offset + size) % U16 <= FullSize THEN offset ELSE None]

\* a remove that leaves the gaps as they are (remove_no_cleanup of the source)
remove_no_cleanup(b, id) ==
    LET to_remove == index_of(b, id)
    IN  IF to_remove = 0
        THEN [blocks |-> b, ret |-> FALSE]
        ELSE [blocks |-> [b EXCEPT ![to_remove] = Gap(b[to_remove].size)],
              ret |-> TRUE]

remove(b, id) ==
    LET to_remove == index_of(b, id)
    IN  IF to_remove = 0
        THEN [blocks |-> b, ret |-> FALSE]
        ELSE [blocks |-> cleanup([b EXCEPT ![to_remove] = Gap(b[to_remove].size)]),
              ret |-> TRUE]

\* index of the first entry equal to Full(old, size), 0 when there is none
index_of_expected(b, old, size) ==
    IF \E i \in 1..Len(b) : b[i] = Full(old, size)
    THEN CHOOSE i \in 1..Len(b) :
            b[i] = Full(old, size) /\ \A j \in 1..(i - 1) : b[j] # Full(old, size)
    ELSE 0

replace_id(b, old, new_id, size) ==
    LET found == index_of_expected(b, old, size)
    IN  IF found = 0
        THEN [blocks |-> b, ret |-> None]
        ELSE [blocks |-> [b EXCEPT ![found].id = new_id],
              ret |-> sum_sizes(b, found - 1)]

\* ---- layer::Handle and object::Handle ------------------------------------
\* the greatest number passed to a setter that takes a number
MaxArg == 1

\* the greatest number of setter calls, and of commit calls, on one handle
MaxCalls == 2

\* a BackgroundControl value, by the fields the layer handle reads and sets
BgSample(v) ==
    [priority |-> v % 4,
     screen_base_block |-> (v + 1) % 32,
     char_base_block |-> (v + 2) % 4,
     is_8bpp |-> v % 2 = 1,
     screen_size |-> (v + 3) % 4,
     affine_overflow_wrapped |-> v % 2 = 0]

\* an Attributes value, by the fields the object handle sets: y_pos,
\* obj_mode, double_disabled, mosaic, use_palbank of attr0; x_pos, obj_size of
\* attr1; priority, tile_index of attr2
ObjSample(v) ==
    [y_pos |-> v,
     obj_mode |-> (v + 1) % 3,
     double_disabled |-> v % 2 = 1,
     mosaic |-> v % 2 = 0,
     use_palbank |-> v % 2 = 1,
     x_pos |-> v + 1,
     obj_size |-> (v + 2) % 4,
     priority |-> (v + 3) % 4,
     tile_index |-> v + 2]

\* ShapeDir and ShapeSize as u16
Square == 0
Horizontal == 1
Vertical == 2
Simple == 0
Double == 1
Quad == 2
Octo == 3

\* Shape::components
components ==
    [_1x1 |-> <<Square, Simple>>, _2x2 |-> <<Square, Double>>,
     _4x4 |-> <<Square, Quad>>, _8x8 |-> <<Square, Octo>>,
     _2x1 |-> <<Horizontal, Simple>>, _4x1 |-> <<Horizontal, Double>>,
     _4x2 |-> <<Horizontal, Quad>>, _8x4 |-> <<Horizontal, Octo>>,
     _1x2 |-> <<Vertical, Simple>>, _1x4 |-> <<Vertical, Double>>,
     _2x4 |-> <<Vertical, Quad>>, _4x8 |-> <<Vertical, Octo>>]

Shapes == DOMAIN components

\* Mode as u16: Normal, AlphaBlend, Window
Modes == 0..2

\* Priority as u16
Priorities == 0..3

\* TextSize and AffineSize as u8
ScreenSizes == 0..3

\* palette::Type
PaletteTypes == {"Bank", "Dynamic", "Full"}

\* the fields that a setter of layer::Handle assigns, with what it assigns
layer_assigns(name, arg) ==
    CASE name = "set_priority" -> "priority" :> arg % 4
      [] name = "set_sbb" -> "screen_base_block" :> arg % 32
      [] name = "set_cbb" -> "char_base_block" :> arg % 4
      [] name = "set_color_mode" -> "is_8bpp" :> arg
      [] name = "set_size" -> "screen_size" :> arg % 4
      [] name = "set_overflow" -> "affine_overflow_wrapped" :> arg

\* a setter that returns what its field held when the handle was made
layer_returns_read(name, value) ==
    CASE name = "set_priority" -> handle.read.priority
      [] name = "set_sbb" -> handle.read.screen_base_block
      [] name = "set_cbb" -> handle.read.char_base_block
      [] OTHER -> None

\* what a setter of layer::Handle returns (None for no value)
layer_returns(name, value) ==
    CASE name = "set_priority" -> value.priority
      [] name = "set_sbb" -> value.screen_base_block
      [] name = "set_cbb" -> value.char_base_block
      [] OTHER -> None

\* the fields that a setter of object::Handle assigns, with what it assigns
object_assigns(name, arg) ==
    CASE name = "set_x" -> "x_pos" :> arg
      [] name = "set_y" -> "y_pos" :> arg
      [] name = "set_shape" ->
            ("obj_mode" :> components[arg][1]) @@ ("obj_size" :> components[arg][2])
      [] name = "set_visible" -> "double_disabled" :> ~arg
      [] name = "set_priority" -> "priority" :> arg
      [] name = "set_mode" -> "obj_mode" :> arg
      [] name = "set_mosaic" -> "mosaic" :> arg
      [] name = "set_sprite" -> ("use_palbank" :> TRUE) @@ ("tile_index" :> arg)
      [] name = "set_palette_mode" -> "use_palbank" :> ~(arg = "Bank")

\* the record `value` after the assignments `assigned`
with(value, assigned) ==
    [f \in DOMAIN value |-> IF f \in DOMAIN assigned THEN assigned[f] ELSE value[f]]

LayerKinds == {"text", "affine"}

assigns(kind, name, arg) ==
    IF kind \in LayerKinds THEN layer_assigns(name, arg) ELSE object_assigns(name, arg)

NoHandle == [kind |-> "none", live |-> FALSE, value |-> <<>>, read |-> <<>>]

\* no handle was made
HandleIdle ==
    /\ bg = BgSample(0)
    /\ oam = ObjSample(0)
    /\ handle = NoHandle
    /\ calls = <<>>
    /\ access = [reads |-> 0, writes |-> 0]
    /\ hret = None

\* ---- video::Control and the display-control register ---------------------
\* mode::Type as u16
TYPE == [Text |-> 0, Mixed |-> 1, Affine |-> 2]

VideoModes == DOMAIN TYPE

\* the layers that Layer<M> has a constant for
LayersOf == [Text |-> 0..3, Mixed |-> 0..2, Affine |-> 2..3]

\* DisplayControl::new(): the fields of the register that Control reads and
\* sets; display_bg is the set of n with display_bg<n> set
NewDisplayControl ==
    [display_mode |-> 0, display_bg |-> {}, display_obj |-> FALSE,
     obj_vram_1d |-> FALSE]

\* an enter_mode that builds the register value anew
enter_mode_from_new(settings, n) ==
    [NewDisplayControl EXCEPT !.display_mode = TYPE[n]]

\* Control::enter_mode::<N>: what it writes to DISPCNT, having read `settings`
enter_mode(settings, n) ==
    [settings EXCEPT !.display_mode = TYPE[n]]

\* Layer::set_display
set_display(layer, bit, settings) ==
    [settings EXCEPT !.display_bg = IF bit THEN @ \cup {layer} ELSE @ \ {layer}]

\* the methods of Control<M> that write DISPCNT, as a hook may call them:
\* what the method writes, having read `settings`
control_call(call, m, settings) ==
    CASE call.name = "enable_layer" -> set_display(call.arg, TRUE, settings)
      [] call.name = "disable_layer" -> set_display(call.arg, FALSE, settings)
      [] call.name = "reset_display_control" ->
            [NewDisplayControl EXCEPT !.display_mode = TYPE[m]]
      [] call.name = "set_object_tile_mapping" ->
            [settings EXCEPT !.obj_vram_1d = call.arg]
      [] call.name = "enable_objects" -> [settings EXCEPT !.display_obj = TRUE]
      [] call.name = "disable_objects" -> [settings EXCEPT !.display_obj = FALSE]
      [] OTHER -> settings

\* the calls on a Control<M> that a hook may make
ControlCalls(m) ==
    {[name |-> n, arg |-> l] : n \in {"enable_layer", "disable_layer"}, l \in LayersOf[m]}
    \cup {[name |-> "set_object_tile_mapping", arg |-> b] : b \in BOOLEAN}
    \cup {[name |-> n, arg |-> 0] :
            n \in {"reset_display_control", "enable_objects", "disable_objects", "none"}}

\* ---- full_game --------------------------------------------------------------
\* the greatest Keys value, besides Keys::DEFAULT, that KEYINPUT shows
MaxKey == 0

\* the frames that a run is followed for
MaxFrame == 2

\* Keys::DEFAULT
KeysDefault == 65535

KeyValues == (0..MaxKey) \cup {KeysDefault}

\* the first line of the vertical blank
VBlankLine == 160

\* what VCOUNT may show when it is read
VCountValues == {0, VBlankLine - 1, VBlankLine, VBlankLine + 1}

\* what GameState::logic may return: None, an EnterMode of a mode, or the
\* hidden EnterMode::_phantom
Requests == VideoModes \cup {"None", "_phantom"}

\* the state when full_game enters its loop: Control::init(),
\* ConsoleState::DEFAULT
GameIdle ==
    /\ pc = "sample"
    /\ frame = 0
    /\ input = [current |-> KeysDefault, previous |-> KeysDefault]
    /\ dispcnt = NewDisplayControl
    /\ vram = 0
    /\ controls = SetToBag({"Text"})
    /\ video_control = "Text"
    /\ enter_video_mode = "None"
    /\ events = <<>>

\* No tile call was made: nothing is written.
NoTileCall == [name |-> "none", made |-> 0]

VmemIdle == mem = <<>> /\ mcall = NoTileCall /\ mpanic = FALSE

\* the game is not in its Space state
NoSpace == [pass |-> "none"]

SpaceIdle == space = NoSpace

RestIdle == GameIdle /\ VmemIdle /\ SpaceIdle

\* ---- Bitset128 (haldvance_utils) ----------------------------------------
\* Bitset128::INDEX_COUNT = u128::BITS
INDEX_COUNT == 128

\* u128::trailing_ones: how many bits are set, from bit 0 upwards, before
\* the first clear one
trailing_ones(b) ==
    CHOOSE n \in 0..INDEX_COUNT :
        /\ \A m \in 0..(n - 1) : m \in b
        /\ n = INDEX_COUNT \/ n \notin b

\* u128::leading_ones: how many bits are set, from bit 127 downwards, before
\* the first clear one
leading_ones(b) ==
    CHOOSE n \in 0..INDEX_COUNT :
        /\ \A m \in (INDEX_COUNT - n)..(INDEX_COUNT - 1) : m \in b
        /\ n = INDEX_COUNT \/ (INDEX_COUNT - 1 - n) \notin b

\* a first_free that counts from the highest bit
first_free_from_top(b) ==
    LET first == leading_ones(b)
    IN  IF first < INDEX_COUNT THEN first ELSE None

\* a reserve that reports whether the index was free
reserve_reports_free(b, index) ==
    [bits |-> b \cup {index}, ret |-> index \notin b]

\* Bitset128::first_free
first_free(b) ==
    LET first == trailing_ones(b)
    IN  IF first < INDEX_COUNT THEN first ELSE None

\* Bitset128::reserve, for index < 128: the new bits and already_taken
reserve(b, index) ==
    [bits |-> b \cup {index}, ret |-> index \in b]

\* Bitset128::free, for index < 128: the new bits and already_free
free(b, index) ==
    [bits |-> b \ {index}, ret |-> index \notin b]

\* ---- Bitset128 (haldvance, crate::bitset) ---------------------------------
\* Bitset128::first_free
hal_first_free(b) ==
    LET first == leading_ones(b)
    IN  IF first = INDEX_COUNT THEN None ELSE first

\* Bitset128::take, for index < 128: the new bits and already_taken
take(b, index) ==
    [bits |-> b \cup {index}, ret |-> index \in b]

\* Bitset128::free, for index < 128: the new bits and already_free
hal_free(b, index) ==
    [bits |-> b \ {index}, ret |-> index \notin b]

\* ---- object::Allocator ---------------------------------------------------
\* Allocator::reserve on the bitset `objects`: the new bitset, the index of
\* the Slot (None for no Slot), and whether assert!(free < 128) failed
Allocator_reserve(objects) ==
    LET first == hal_first_free(objects)
    IN  IF first = None
        THEN [objects |-> objects, ret |-> None, panic |-> FALSE]
        ELSE [objects |-> take(objects, first).bits,
              ret |-> first,
              panic |-> ~(first < 128)]

\* Allocator::free
Allocator_free(objects, slot) == hal_free(objects, slot).bits

NoBitCall == [name |-> "none", index |-> 0]

BitsetIdle ==
    /\ bits = {}
    /\ bcall = NoBitCall
    /\ bret = None
    /\ bprev = {}

\* what the specifications of the span allocator start the rest with
\* no Slot was handed out
ObjectsIdle ==
    /\ slots = EmptyBag
    /\ leaked = EmptyBag

NotBlocksIdle == BitsetIdle /\ ObjectsIdle /\ HandleIdle /\ RestIdle

\* ---- the allocator as a state machine -----------------------------------
\* No call is outstanding: the caller holds no result.
NoCall == [name |-> "none", id |-> 0, new_id |-> 0, size |-> 0]

BlocksInit ==
    /\ blocks = new
    /\ op = NoCall
    /\ ret = None
    /\ prev = new
    /\ NotBlocksIdle

\* Allocator::reserve_sprite -> Blocks::insert_sized
InsertSized ==
    /\ op = NoCall
    /\ \E id \in Ids, size \in Sizes :
        /\ blocks' = insert_sized(blocks, id, size).blocks
        /\ ret' = insert_sized(blocks, id, size).ret
        /\ op' = [name |-> "insert_sized", id |-> id, new_id |-> 0, size |-> size]
    /\ prev' = blocks
    /\ UNCHANGED not_blocks

\* Allocator::free_sprite -> Blocks::remove
Remove ==
    /\ op = NoCall
    /\ \E id \in Ids :
        /\ blocks' = remove(blocks, id).blocks
        /\ ret' = remove(blocks, id).ret
        /\ op' = [name |-> "remove", id |-> id, new_id |-> 0, size |-> 0]
    /\ prev' = blocks
    /\ UNCHANGED not_blocks

\* Allocator::replace_sprite -> Blocks::replace_id
ReplaceId ==
    /\ op = NoCall
    /\ \E old \in Ids, new_id \in Ids, size \in Sizes :
        /\ blocks' = replace_id(blocks, old, new_id, size).blocks
        /\ ret' = replace_id(blocks, old, new_id, size).ret
        /\ op' = [name |-> "replace_id", id |-> old, new_id |-> new_id, size |-> size]
    /\ prev' = blocks
    /\ UNCHANGED not_blocks

\* The call is over: its caller has taken the result, the allocator keeps
\* only its entry list.
Return ==
    /\ op # NoCall
    /\ op' = NoCall
    /\ ret' = None
    /\ prev' = new
    /\ UNCHANGED blocks
    /\ UNCHANGED not_blocks

BlocksNext == InsertSized \/ Remove \/ ReplaceId \/ Return

SpecBlocks == BlocksInit /\ [][BlocksNext]_vars

\* ---- cleanup on any entry list --------------------------------------------
\* cleanup is public: it can be handed any entry list, also one with
\* neighbouring gaps and with sizes up to the largest u16.
CleanupMaxLen == 3

CleanupSizes == Sizes \cup {U16 - 1}

CleanupEntries ==
    {Gap(s) : s \in CleanupSizes} \cup {Full(id, s) : id \in Ids, s \in CleanupSizes}

EntryLists ==
    UNION {[1..n -> CleanupEntries] : n \in 0..CleanupMaxLen}

CleanupInit ==
    /\ blocks \in EntryLists
    /\ op = NoCall
    /\ ret = None
    /\ prev = new
    /\ NotBlocksIdle

\* Blocks::cleanup
Cleanup ==
    /\ op = NoCall
    /\ blocks' = cleanup(blocks)
    /\ op' = [name |-> "cleanup", id |-> 0, new_id |-> 0, size |-> 0]
    /\ ret' = None
    /\ prev' = blocks
    /\ UNCHANGED not_blocks

CleanupNext == Cleanup \/ Return

SpecCleanup == CleanupInit /\ [][CleanupNext]_vars

\* ---- the bitset as a state machine --------------------------------------
\* the highest of the low indices that callers pass to reserve and to free
MaxIndex == 2

\* the span allocator is not in use
BlocksIdle ==
    /\ blocks = new
    /\ op = NoCall
    /\ ret = None
    /\ prev = new

\* what a specification of the bitset leaves alone
not_bitset == <<blocks_vars, object_vars, handle_vars, rest_vars>>

NotBitsetIdle == BlocksIdle /\ ObjectsIdle /\ HandleIdle /\ RestIdle

\* the indices callers pass: the low ones, the highest one, and the one that
\* first_free gives
PassedIndices(b) ==
    (0..MaxIndex) \cup {INDEX_COUNT - 1} \cup ({first_free(b)} \ {None})

\* Bitset128::DEFAULT
BitsetInit ==
    /\ BitsetIdle
    /\ NotBitsetIdle

\* Bitset128::first_free
FirstFree ==
    /\ bcall = NoBitCall
    /\ bret' = first_free(bits)
    /\ bcall' = [name |-> "first_free", index |-> 0]
    /\ bprev' = bits
    /\ UNCHANGED bits
    /\ UNCHANGED not_bitset

\* Bitset128::reserve
Reserve ==
    /\ bcall = NoBitCall
    /\ \E index \in PassedIndices(bits) :
        /\ bits' = reserve(bits, index).bits
        /\ bret' = reserve(bits, index).ret
        /\ bcall' = [name |-> "reserve", index |-> index]
    /\ bprev' = bits
    /\ UNCHANGED not_bitset

\* Bitset128::free
Free ==
    /\ bcall = NoBitCall
    /\ \E index \in PassedIndices(bits) :
        /\ bits' = free(bits, index).bits
        /\ bret' = free(bits, index).ret
        /\ bcall' = [name |-> "free", index |-> index]
    /\ bprev' = bits
    /\ UNCHANGED not_bitset

\* The call is over: its caller has taken the result.
BitReturn ==
    /\ bcall # NoBitCall
    /\ bcall' = NoBitCall
    /\ bret' = None
    /\ bprev' = {}
    /\ UNCHANGED bits
    /\ UNCHANGED not_bitset

BitsetNext == FirstFree \/ Reserve \/ Free \/ BitReturn

SpecBitset == BitsetInit /\ [][BitsetNext]_vars

\* ---- the object slots as a state machine ---------------------------------
\* the Slot values that were reserved and not freed
outstanding == slots (+) leaked

\* Allocator::DEFAULT
ObjectsInit ==
    /\ BitsetIdle
    /\ ObjectsIdle
    /\ BlocksIdle
    /\ HandleIdle
    /\ RestIdle

\* ConsoleState::reserve_object -> Allocator::reserve; the run is followed
\* until one Slot more than the object table has entries is outstanding
ObjReserve ==
    /\ bcall = NoBitCall
    /\ BagCardinality(outstanding) <= INDEX_COUNT
    /\ bits' = Allocator_reserve(bits).objects
    /\ bret' = Allocator_reserve(bits).ret
    /\ slots' = IF Allocator_reserve(bits).ret = None
                THEN slots
                ELSE slots (+) SetToBag({Allocator_reserve(bits).ret})
    /\ bcall' = [name |-> "Allocator::reserve", index |-> 0]
    /\ bprev' = bits
    /\ UNCHANGED <<leaked, blocks_vars, handle_vars, rest_vars>>

\* ConsoleState::free_object -> Allocator::free, which consumes the Slot
ObjFree ==
    /\ bcall = NoBitCall
    /\ \E slot \in BagToSet(slots) :
        /\ bits' = Allocator_free(bits, slot)
        /\ slots' = slots (-) SetToBag({slot})
        /\ bcall' = [name |-> "Allocator::free", index |-> slot]
    /\ bret' = None
    /\ bprev' = bits
    /\ UNCHANGED <<leaked, blocks_vars, handle_vars, rest_vars>>

\* a caller drops a Slot without a call of free (Slot has no Drop impl)
ObjDrop ==
    /\ bcall = NoBitCall
    /\ \E slot \in BagToSet(slots) :
        /\ slots' = slots (-) SetToBag({slot})
        /\ leaked' = leaked (+) SetToBag({slot})
    /\ UNCHANGED <<bitset_vars, blocks_vars, handle_vars, rest_vars>>

ObjectsNext == ObjReserve \/ ObjFree \/ ObjDrop \/ BitReturn

SpecObjects == ObjectsInit /\ [][ObjectsNext]_vars

\* ---- a handle as a state machine ----------------------------------------
\* what a specification of the handles leaves alone
not_handle == <<blocks_vars, bitset_vars, object_vars, rest_vars>>

HandleInit ==
    /\ \E v \in 0..MaxArg :
        /\ bg = BgSample(v)
        /\ oam = ObjSample(v)
    /\ handle = NoHandle
    /\ calls = <<>>
    /\ access = [reads |-> 0, writes |-> 0]
    /\ hret = None
    /\ BlocksIdle
    /\ BitsetIdle
    /\ ObjectsIdle
    /\ RestIdle

\* video::Control::layer -> layer::Handle::new
LayerNew ==
    /\ handle.kind = "none"
    /\ \E m \in LayerKinds :
        handle' = [kind |-> m, live |-> TRUE, value |-> bg, read |-> bg]
    /\ access' = [reads |-> 1, writes |-> 0]
    /\ UNCHANGED <<bg, oam, calls, hret, not_handle>>

\* video::Control::object -> object::Handle::new
ObjectNew ==
    /\ handle.kind = "none"
    /\ handle' = [kind |-> "object", live |-> TRUE, value |-> oam, read |-> oam]
    /\ access' = [reads |-> 1, writes |-> 0]
    /\ UNCHANGED <<bg, oam, calls, hret, not_handle>>

\* a setter may be called on a live handle of one of `kinds`
can_set(kinds) ==
    /\ handle.live
    /\ handle.kind \in kinds
    /\ Len(calls) < MaxCalls

\* the handle after the setter `name`
set_value(name, arg) ==
    [handle EXCEPT !.value = with(@, assigns(handle.kind, name, arg))]

\* the setters called, after the setter `name`
called(name, arg) == Append(calls, [name |-> name, arg |-> arg])

\* what the setter `name` returns
returned(name) ==
    IF handle.kind \in LayerKinds THEN layer_returns(name, handle.value) ELSE None

\* layer Handle::set_priority
LayerSetPriority ==
    /\ can_set(LayerKinds)
    /\ \E arg \in Priorities :
        /\ handle' = set_value("set_priority", arg)
        /\ calls' = called("set_priority", arg)
    /\ hret' = returned("set_priority")
    /\ UNCHANGED <<bg, oam, access, not_handle>>

\* layer Handle::set_sbb
LayerSetSbb ==
    /\ can_set(LayerKinds)
    /\ \E arg \in 0..MaxArg :
        /\ handle' = set_value("set_sbb", arg)
        /\ calls' = called("set_sbb", arg)
    /\ hret' = returned("set_sbb")
    /\ UNCHANGED <<bg, oam, access, not_handle>>

\* layer Handle::set_cbb
LayerSetCbb ==
    /\ can_set(LayerKinds)
    /\ \E arg \in 0..MaxArg :
        /\ handle' = set_value("set_cbb", arg)
        /\ calls' = called("set_cbb", arg)
    /\ hret' = returned("set_cbb")
    /\ UNCHANGED <<bg, oam, access, not_handle>>

\* layer Handle::set_color_mode, by CM::RAW_REPR
LayerSetColorMode ==
    /\ can_set(LayerKinds)
    /\ \E arg \in BOOLEAN :
        /\ handle' = set_value("set_color_mode", arg)
        /\ calls' = called("set_color_mode", arg)
    /\ hret' = returned("set_color_mode")
    /\ UNCHANGED <<bg, oam, access, not_handle>>

\* layer Handle<mode::Text>::set_size
TextSetSize ==
    /\ can_set({"text"})
    /\ \E arg \in ScreenSizes :
        /\ handle' = set_value("set_size", arg)
        /\ calls' = called("set_size", arg)
    /\ hret' = returned("set_size")
    /\ UNCHANGED <<bg, oam, access, not_handle>>

\* layer Handle<mode::Affine>::set_size
AffineSetSize ==
    /\ can_set({"affine"})
    /\ \E arg \in ScreenSizes :
        /\ handle' = set_value("set_size", arg)
        /\ calls' = called("set_size", arg)
    /\ hret' = returned("set_size")
    /\ UNCHANGED <<bg, oam, access, not_handle>>

\* layer Handle<mode::Affine>::set_overflow
AffineSetOverflow ==
    /\ can_set({"affine"})
    /\ \E arg \in BOOLEAN :
        /\ handle' = set_value("set_overflow", arg)
        /\ calls' = called("set_overflow", arg)
    /\ hret' = returned("set_overflow")
    /\ UNCHANGED <<bg, oam, access, not_handle>>

\* layer Handle::drop -> Handle::commit
LayerDrop ==
    /\ handle.live
    /\ handle.kind \in LayerKinds
    /\ bg' = handle.value
    /\ access' = [access EXCEPT !.writes = @ + 1]
    /\ handle' = [handle EXCEPT !.live = FALSE]
    /\ UNCHANGED <<oam, calls, hret, not_handle>>

\* object Handle::set_pos: set_x, then set_y
ObjSetPos ==
    /\ handle.live
    /\ handle.kind = "object"
    /\ Len(calls) + 2 <= MaxCalls
    /\ \E x \in 0..MaxArg, y \in 0..MaxArg :
        /\ handle' = [handle EXCEPT !.value =
                        with(with(@, object_assigns("set_x", x)),
                             object_assigns("set_y", y))]
        /\ calls' = calls \o <<[name |-> "set_x", arg |-> x],
                               [name |-> "set_y", arg |-> y]>>
    /\ hret' = None
    /\ UNCHANGED <<bg, oam, access, not_handle>>

\* object Handle::set_x
ObjSetX ==
    /\ can_set({"object"})
    /\ \E arg \in 0..MaxArg :
        /\ handle' = set_value("set_x", arg)
        /\ calls' = called("set_x", arg)
    /\ hret' = returned("set_x")
    /\ UNCHANGED <<bg, oam, access, not_handle>>

\* object Handle::set_y
ObjSetY ==
    /\ can_set({"object"})
    /\ \E arg \in 0..MaxArg :
        /\ handle' = set_value("set_y", arg)
        /\ calls' = called("set_y", arg)
    /\ hret' = returned("set_y")
    /\ UNCHANGED <<bg, oam, access, not_handle>>

\* object Handle::set_shape -> Shape::set_attributes
ObjSetShape ==
    /\ can_set({"object"})
    /\ \E arg \in Shapes :
        /\ handle' = set_value("set_shape", arg)
        /\ calls' = called("set_shape", arg)
    /\ hret' = returned("set_shape")
    /\ UNCHANGED <<bg, oam, access, not_handle>>

\* object Handle::set_visible
ObjSetVisible ==
    /\ can_set({"object"})
    /\ \E arg \in BOOLEAN :
        /\ handle' = set_value("set_visible", arg)
        /\ calls' = called("set_visible", arg)
    /\ hret' = returned("set_visible")
    /\ UNCHANGED <<bg, oam, access, not_handle>>

\* object Handle::set_priority
ObjSetPriority ==
    /\ can_set({"object"})
    /\ \E arg \in Priorities :
        /\ handle' = set_value("set_priority", arg)
        /\ calls' = called("set_priority", arg)
    /\ hret' = returned("set_priority")
    /\ UNCHANGED <<bg, oam, access, not_handle>>

\* object Handle::set_mode
ObjSetMode ==
    /\ can_set({"object"})
    /\ \E arg \in Modes :
        /\ handle' = set_value("set_mode", arg)
        /\ calls' = called("set_mode", arg)
    /\ hret' = returned("set_mode")
    /\ UNCHANGED <<bg, oam, access, not_handle>>

\* object Handle::set_mosaic
ObjSetMosaic ==
    /\ can_set({"object"})
    /\ \E arg \in BOOLEAN :
        /\ handle' = set_value("set_mosaic", arg)
        /\ calls' = called("set_mosaic", arg)
    /\ hret' = returned("set_mosaic")
    /\ UNCHANGED <<bg, oam, access, not_handle>>

\* object Handle::set_sprite, by the offset of the sprite::Slot
ObjSetSprite ==
    /\ can_set({"object"})
    /\ \E arg \in 0..MaxArg :
        /\ handle' = set_value("set_sprite", arg)
        /\ calls' = called("set_sprite", arg)
    /\ hret' = returned("set_sprite")
    /\ UNCHANGED <<bg, oam, access, not_handle>>

\* object Handle::set_palette_mode
ObjSetPaletteMode ==
    /\ can_set({"object"})
    /\ \E arg \in PaletteTypes :
        /\ handle' = set_value("set_palette_mode", arg)
        /\ calls' = called("set_palette_mode", arg)
    /\ hret' = returned("set_palette_mode")
    /\ UNCHANGED <<bg, oam, access, not_handle>>

\* object Handle::commit, which is public
ObjCommit ==
    /\ handle.live
    /\ handle.kind = "object"
    /\ access.writes < MaxCalls
    /\ oam' = handle.value
    /\ access' = [access EXCEPT !.writes = @ + 1]
    /\ UNCHANGED <<bg, handle, calls, hret, not_handle>>

\* object Handle::drop -> Handle::commit
ObjectDrop ==
    /\ handle.live
    /\ handle.kind = "object"
    /\ oam' = handle.value
    /\ access' = [access EXCEPT !.writes = @ + 1]
    /\ handle' = [handle EXCEPT !.live = FALSE]
    /\ UNCHANGED <<bg, calls, hret, not_handle>>

HandleNext ==
    \/ LayerNew \/ ObjectNew
    \/ LayerSetPriority \/ LayerSetSbb \/ LayerSetCbb \/ LayerSetColorMode
    \/ TextSetSize \/ AffineSetSize \/ AffineSetOverflow \/ LayerDrop
    \/ ObjSetPos \/ ObjSetX \/ ObjSetY \/ ObjSetShape \/ ObjSetVisible
    \/ ObjSetPriority \/ ObjSetMode \/ ObjSetMosaic \/ ObjSetSprite \/ ObjSetPaletteMode
    \/ ObjCommit \/ ObjectDrop

SpecHandle == HandleInit /\ [][HandleNext]_vars

\* ---- full_game as a state machine -------------------------------------------
\* what a specification of full_game leaves alone: all but the bitset of
\* ConsoleState::objects
not_game ==
    <<blocks_vars, bcall, bret, bprev, object_vars, handle_vars, vmem_vars,
      space>>

GameInit ==
    /\ GameIdle
    /\ VmemIdle
    /\ SpaceIdle
    /\ BlocksIdle
    /\ BitsetIdle
    /\ ObjectsIdle
    /\ HandleIdle

\* a loop that calls text_draw whatever the variant
draw_hook_text_only ==
    [Text |-> "text_draw", Mixed |-> "text_draw", Affine |-> "text_draw"]

\* the draw hook of a ControlModes variant
draw_hook == [Text |-> "text_draw", Mixed |-> "mixed_draw", Affine |-> "affine_draw"]

\* what a hook may do to ConsoleState::objects: nothing, reserve_object, or
\* free_object of a Slot it holds
hook_objects ==
    {bits, Allocator_reserve(bits).objects}
    \cup {Allocator_free(bits, slot) : slot \in bits}

\* a loop that draws before it waits for the vertical blank
step_after_draw_first(step) ==
    CASE step = "sample" -> "logic"
      [] step = "logic" -> "enter"
      [] step = "enter" -> "enter_hook"
      [] step = "enter_hook" -> "draw"
      [] step = "draw" -> "vblank"
      [] step = "vblank" -> "vdraw"
      [] step = "vdraw" -> "sample"

\* the step that follows a step of the loop
step_after(step) ==
    CASE step = "sample" -> "logic"
      [] step = "logic" -> "vblank"
      [] step = "vblank" -> "enter"
      [] step = "enter" -> "enter_hook"
      [] step = "enter_hook" -> "draw"
      [] step = "draw" -> "vdraw"
      [] step = "vdraw" -> "sample"

\* console.input.previous = replace(&mut console.input.current, KEYINPUT.read());
\* console.frame = console.frame.wrapping_add(1)
Sample ==
    /\ pc = "sample"
    /\ frame < MaxFrame
    /\ \E key \in KeyValues :
        /\ input' = [previous |-> input.current, current |-> key]
        /\ events' = <<[name |-> "sample", read |-> key, former |-> input.current,
                       frame_was |-> frame]>>
    /\ frame' = frame + 1
    /\ pc' = step_after(pc)
    /\ UNCHANGED <<dispcnt, vram, controls, video_control, enter_video_mode, bits, not_game>>

\* state.logic(&mut console)
Logic ==
    /\ pc = "logic"
    /\ \E request \in Requests :
        /\ enter_video_mode' = request
        /\ events' = Append(events, [name |-> "logic", request |-> request])
    /\ bits' \in hook_objects
    /\ pc' = step_after(pc)
    /\ UNCHANGED <<frame, input, dispcnt, vram, controls, video_control, not_game>>

\* spin_until_vblank: one read of VCOUNT
SpinVblank ==
    /\ pc = "vblank"
    /\ \E vcount \in VCountValues :
        IF vcount < VBlankLine
        THEN UNCHANGED <<pc, events>>
        ELSE /\ pc' = step_after(pc)
             /\ events' = Append(events, [name |-> "vblank"])
    /\ UNCHANGED <<frame, input, dispcnt, vram, controls, video_control, enter_video_mode, bits, not_game>>

\* enter_video_mode.take() is Some(mode) for a mode: EnterMode::enter up to
\* the hook, that is Control::enter_mode
EnterMode ==
    /\ pc = "enter"
    /\ enter_video_mode \in VideoModes
    /\ dispcnt' = enter_mode(dispcnt, enter_video_mode)
    /\ controls' = (controls (-) SetToBag({video_control})) (+) SetToBag({enter_video_mode})
    /\ video_control' = enter_video_mode
    /\ enter_video_mode' = "None"
    /\ pc' = step_after(pc)
    /\ UNCHANGED <<frame, input, vram, events, bits, not_game>>

\* enter_video_mode.take() is None, or EnterMode::_phantom: video_control
\* stays
KeepMode ==
    /\ pc = "enter"
    /\ enter_video_mode \notin VideoModes
    /\ enter_video_mode' = "None"
    /\ pc' = step_after(step_after(pc))
    /\ UNCHANGED <<frame, input, dispcnt, vram, controls, video_control, events, bits, not_game>>

\* the hook of the EnterMode, on the new Control
EnterHook ==
    /\ pc = "enter_hook"
    /\ \E call \in ControlCalls(video_control) :
        dispcnt' = control_call(call, video_control, dispcnt)
    /\ vram' \in 0..1
    /\ bits' \in hook_objects
    /\ events' = Append(events,
            [name |-> "enter", handle |-> video_control, mode |-> dispcnt.display_mode])
    /\ pc' = step_after(pc)
    /\ UNCHANGED <<frame, input, controls, video_control, enter_video_mode, not_game>>

\* the draw hook of the variant of video_control
Draw ==
    /\ pc = "draw"
    /\ \E call \in ControlCalls(video_control) :
        dispcnt' = control_call(call, video_control, dispcnt)
    /\ vram' \in 0..1
    /\ bits' \in hook_objects
    /\ events' = Append(events,
            [name |-> draw_hook[video_control], handle |-> video_control,
             mode |-> dispcnt.display_mode])
    /\ pc' = step_after(pc)
    /\ UNCHANGED <<frame, input, controls, video_control, enter_video_mode, not_game>>

\* spin_until_vdraw: one read of VCOUNT
SpinVdraw ==
    /\ pc = "vdraw"
    /\ \E vcount \in VCountValues :
        IF vcount >= VBlankLine
        THEN UNCHANGED <<pc, events>>
        ELSE /\ pc' = step_after(pc)
             /\ events' = Append(events, [name |-> "vdraw"])
    /\ UNCHANGED <<frame, input, dispcnt, vram, controls, video_control, enter_video_mode, bits, not_game>>

GameNext ==
    \/ Sample \/ Logic \/ SpinVblank \/ EnterMode \/ KeepMode
    \/ EnterHook \/ Draw \/ SpinVdraw

SpecGame == GameInit /\ [][GameNext]_vars


\* ---- tile maps (haldvance video/tile) -----------------------------------
\* SBB_SIZE: the entries of one screen base block
SBB_SIZE == 1024

\* map::Pos and map::Rect
Pos(x, y) == [x |-> x, y |-> y]

Rect(w, h) == [width |-> w, height |-> h]

\* Pos + Pos: each coordinate is added in u16
pos_add(p, q) == Pos((p.x + q.x) % U16, (p.y + q.y) % U16)

\* Rect::contains
contains(rect, pos) == pos.x < rect.width /\ pos.y < rect.height

\* TextSize::region
text_region ==
    [Base |-> Rect(32, 32), Long |-> Rect(64, 32),
     Tall |-> Rect(32, 64), Large |-> Rect(64, 64)]

TextSizes == DOMAIN text_region

\* Tile::EMPTY
EMPTY == 0

\* the cells of a block with entry stored in cell i
stored(cells, i, entry) ==
    [j \in DOMAIN cells \cup {i} |-> IF j = i THEN entry ELSE cells[j]]

\* sbb.index(i).write(entry) on a VolBlock of SBB_SIZE entries: index panics
\* when i is not below the block's size, and nothing runs after a panic
vol_write(st, i, entry) ==
    IF st.panic THEN st
    ELSE IF i < SBB_SIZE
         THEN [st EXCEPT !.cells = stored(st.cells, i, entry)]
         ELSE [st EXCEPT !.panic = TRUE]

\* TextHandle::set_tile
set_tile(st, size, tile, pos) ==
    vol_write(st, (pos.x + pos.y * text_region[size].width) % U16, tile)

\* TextHandle::set_tiles, the tiles of one row from the k-th on
RECURSIVE set_row(_, _, _, _, _)
set_row(st, size, offset, row, k) ==
    IF k > Len(row.tiles) THEN st
    ELSE LET pos == pos_add(pos_add(Pos(k - 1, 0), row.pos), offset)
             written == IF contains(text_region[size], pos)
                        THEN set_tile(st, size, row.tiles[k], pos)
                        ELSE st
         IN  set_row(written, size, offset, row, k + 1)

\* TextHandle::set_tiles: for_each_line calls the closure on each row in turn
RECURSIVE set_tiles_from(_, _, _, _, _)
set_tiles_from(st, size, offset, drawable, r) ==
    IF r > Len(drawable) THEN st
    ELSE set_tiles_from(set_row(st, size, offset, drawable[r], 1),
                        size, offset, drawable, r + 1)

set_tiles(st, size, offset, drawable) ==
    set_tiles_from(st, size, offset, drawable, 1)

\* Drawable::all_tiles inside clear_tiles: for the k-th tile of a row the
\* closure gets row.pos + Pos::x(k), and sets the empty tile at that + offset
RECURSIVE clear_row(_, _, _, _, _)
clear_row(st, size, offset, row, k) ==
    IF k > Len(row.tiles) THEN st
    ELSE LET pos == pos_add(pos_add(row.pos, Pos(k - 1, 0)), offset)
         IN  clear_row(set_tile(st, size, EMPTY, pos), size, offset, row, k + 1)

\* TextHandle::clear_tiles
RECURSIVE clear_tiles_from(_, _, _, _, _)
clear_tiles_from(st, size, offset, drawable, r) ==
    IF r > Len(drawable) THEN st
    ELSE clear_tiles_from(clear_row(st, size, offset, drawable[r], 1),
                          size, offset, drawable, r + 1)

clear_tiles(st, size, offset, drawable) ==
    clear_tiles_from(st, size, offset, drawable, 1)


\* ---- a text tile map as a state machine ---------------------------------
\* the rows a drawable yields, and the calls made on one map
MaxRows == 2

MaxTileCalls == 2

not_vmem ==
    <<blocks_vars, bitset_vars, object_vars, handle_vars, game_vars, space>>

NotVmemIdle ==
    /\ BlocksIdle /\ BitsetIdle /\ ObjectsIdle /\ HandleIdle /\ GameIdle
    /\ SpaceIdle

\* the tiles of a row, where a row starts, and where a drawable is put: in
\* the first columns and rows, at the last column of a base map, and at the
\* row whose cells lie past the first screen base block of a 64-wide map
TileLists == {<<1>>, <<2, 1>>}

RowPositions == {Pos(0, 0), Pos(1, 1)}

TextRows == [pos : RowPositions, tiles : TileLists]

TextDrawables == UNION {[1..n -> TextRows] : n \in 1..MaxRows}

TextOffsets == {Pos(x, y) : x \in {0, 31}, y \in {0, 16}}

TextMapInit ==
    /\ VmemIdle
    /\ NotVmemIdle

\* what a call leaves in the caller's hands next to the memory
tile_call(fn, size, offset, drawable) ==
    [name |-> fn, size |-> size, offset |-> offset, drawable |-> drawable,
     was |-> mem, made |-> mcall.made + 1]

can_call == mcall.name = "none" /\ mcall.made < MaxTileCalls /\ ~mpanic

SetTiles ==
    /\ can_call
    /\ \E size \in TextSizes, offset \in TextOffsets, drawable \in TextDrawables :
          LET st == set_tiles([cells |-> mem, panic |-> FALSE],
                              size, offset, drawable)
          IN  /\ mem' = st.cells
              /\ mpanic' = st.panic
              /\ mcall' = tile_call("set_tiles", size, offset, drawable)
    /\ UNCHANGED not_vmem

ClearTiles ==
    /\ can_call
    /\ \E size \in TextSizes, offset \in TextOffsets, drawable \in TextDrawables :
          LET st == clear_tiles([cells |-> mem, panic |-> FALSE],
                                size, offset, drawable)
          IN  /\ mem' = st.cells
              /\ mpanic' = st.panic
              /\ mcall' = tile_call("clear_tiles", size, offset, drawable)
    /\ UNCHANGED not_vmem

\* the caller goes on after a call that came back
TileReturn ==
    /\ mcall.name # "none"
    /\ ~mpanic
    /\ mcall' = [name |-> "none", made |-> mcall.made]
    /\ UNCHANGED <<mem, mpanic>>
    /\ UNCHANGED not_vmem

TextMapNext == SetTiles \/ ClearTiles \/ TileReturn

SpecTextMap == TextMapInit /\ [][TextMapNext]_vars


\* ---- affine tile maps (haldvance video/tile/sbb.rs) ----------------------
\* AffineSize::region
affine_region ==
    [Base |-> Rect(16, 16), Double |-> Rect(32, 32),
     Quad |-> Rect(64, 64), Octo |-> Rect(128, 128)]

AffineSizes == DOMAIN affine_region

\* an AffineEntry whose right field lies at the lower address
word_of_right_low(entry) == entry.right + 256 * entry.left

\* struct AffineEntry { left: u8, right: u8 } with repr(C), align 2, as the
\* 16-bit word the little-endian bus moves: left lies at the lower address
word_of(entry) == entry.left + 256 * entry.right

\* the AffineEntry that a 16-bit word read from memory is
entry_of(word) == [left |-> word % 256, right |-> word \div 256]

\* what an affine map holds where nothing was written yet
OldEntry == [left |-> 8, right |-> 9]

\* address.read() of the word w
word_at(cells, w) == IF w \in DOMAIN cells THEN cells[w] ELSE word_of(OldEntry)

\* AffineEntry::set_left and set_right replace one half and keep the other
set_left(entry, v) == [entry EXCEPT !.left = v]

set_right(entry, v) == [entry EXCEPT !.right = v]

\* AffineHandle::set_couple_unchecked
set_couple_unchecked(cells, to_set, offset) ==
    stored(cells, offset \div 2, word_of(to_set))

\* AffineHandle::set_unique_unchecked
set_unique_unchecked(cells, to_set, offset) ==
    LET previous == entry_of(word_at(cells, offset \div 2))
    IN  stored(cells, offset \div 2,
               word_of(IF offset % 2 = 0
                       THEN set_left(previous, to_set)
                       ELSE set_right(previous, to_set)))

\* the loop of set_line over tile::entrify(iter): align_2 pairs the tiles up
\* and gives a last tile without partner on its own
RECURSIVE set_entries(_, _, _)
set_entries(cells, tiles, offset) ==
    IF tiles = <<>> THEN cells
    ELSE IF Len(tiles) = 1
         THEN set_unique_unchecked(cells, tiles[1], offset)
         ELSE set_entries(
                 set_couple_unchecked(
                     cells, [left |-> tiles[1], right |-> tiles[2]], offset),
                 Tail(Tail(tiles)), (offset + 2) % U16)

\* a set_line that does not crop the line at the end of the row
set_line_whole_line(cells, size, pos, tiles) ==
    LET region == affine_region[size]
        offset == (pos.x + pos.y * region.width) % U16
    IN  IF pos.y >= region.height \/ pos.x >= region.width THEN cells
        ELSE IF offset % 2 = 0 THEN set_entries(cells, tiles, offset)
        ELSE IF tiles = <<>> THEN cells
        ELSE set_entries(set_unique_unchecked(cells, tiles[1], offset),
                         Tail(tiles), (offset + 1) % U16)

\* AffineHandle::set_line
set_line(cells, size, pos, tiles) ==
    LET region == affine_region[size]
        max_line_len == region.width - pos.x
        taken == SubSeq(tiles, 1, IF Len(tiles) < max_line_len
                                  THEN Len(tiles) ELSE max_line_len)
        offset == (pos.x + pos.y * region.width) % U16
    IN  IF pos.y >= region.height \/ pos.x >= region.width THEN cells
        ELSE IF offset % 2 = 0 THEN set_entries(cells, taken, offset)
        ELSE IF taken = <<>> THEN cells
        ELSE set_entries(set_unique_unchecked(cells, taken[1], offset),
                         Tail(taken), (offset + 1) % U16)

\* ---- an affine tile map as a state machine ------------------------------
\* the tiles of a line
MaxLine == 3

\* the lines passed, and where they start: in the first columns and rows, at
\* the last two columns of a base map, and past its last column and row
AffineLines == {[k \in 1..n |-> (k % 3) + 1] : n \in 0..MaxLine}

AffinePositions == {Pos(x, y) : x \in {0, 1, 15, 16}, y \in {1, 16}}

AffineMapInit ==
    /\ VmemIdle
    /\ NotVmemIdle

SetLine ==
    /\ can_call
    /\ \E size \in AffineSizes, pos \in AffinePositions, tiles \in AffineLines :
          /\ mem' = set_line(mem, size, pos, tiles)
          /\ mcall' = [name |-> "set_line", size |-> size, pos |-> pos,
                       tiles |-> tiles, was |-> mem, made |-> mcall.made + 1]
    /\ UNCHANGED mpanic
    /\ UNCHANGED not_vmem

AffineMapNext == SetLine \/ TileReturn

SpecAffineMap == AffineMapInit /\ [][AffineMapNext]_vars


\* ---- character base blocks (haldvance video/tile.rs, tile/cbb.rs) --------
\* CBB_SIZE: the u16 units of one character base block, and CBB_COUNT
CBB_SIZE == 8192

CBB_COUNT == 4

\* data.chunks(CBB_SIZE) of a slice of n units, each chunk as the place in
\* the slice where it starts and its length
chunks(n) ==
    [i \in 1..((n + CBB_SIZE - 1) \div CBB_SIZE) |->
        [from |-> (i - 1) * CBB_SIZE,
         len |-> IF n - (i - 1) * CBB_SIZE < CBB_SIZE
                 THEN n - (i - 1) * CBB_SIZE ELSE CBB_SIZE]]

\* a Slot::add that wraps around to the first block
slot_add_wrapping(cbb, i) == (cbb + i) % CBB_COUNT

\* cbb::Slot::add
slot_add(cbb, i) == IF cbb + i < CBB_COUNT THEN cbb + i ELSE None

\* cbb.write_slice(data) on the block cbb of TILE_IMG_DATA: the first units
\* of the block take the units of the chunk, as many as the shorter of the
\* two has. A block is kept as the list of what was written to it.
write_slice(cells, cbb, tileset, chunk) ==
    LET written == [tileset |-> tileset, from |-> chunk.from,
                    len |-> IF chunk.len < CBB_SIZE THEN chunk.len ELSE CBB_SIZE]
    IN  stored(cells, cbb,
               IF cbb \in DOMAIN cells THEN Append(cells[cbb], written)
               ELSE <<written>>)

\* load_tileset: the chunks from the i-th on
RECURSIVE load_chunks(_, _, _, _, _)
load_chunks(cells, cbb, tileset, n, i) ==
    IF i > Len(chunks(n)) THEN cells
    ELSE load_chunks(
            IF slot_add(cbb, i - 1) # None
            THEN write_slice(cells, slot_add(cbb, i - 1), tileset, chunks(n)[i])
            ELSE cells,
            cbb, tileset, n, i + 1)

\* VideoControl::load_tileset with a tileset of n units
load_tileset(cells, cbb, tileset, n) == load_chunks(cells, cbb, tileset, n, 1)

\* ---- the character base blocks as a state machine -----------------------
\* the tilesets a game has
MaxTileset == 2

\* the lengths of their data: nothing, less than a block, a block, more than
\* a block, and more than the four blocks hold
TilesetLengths ==
    {0, 1, CBB_SIZE, CBB_SIZE + 1, 2 * CBB_SIZE, CBB_COUNT * CBB_SIZE + 1}

TilesetInit ==
    /\ VmemIdle
    /\ NotVmemIdle

LoadTileset ==
    /\ can_call
    /\ \E cbb \in 0..(CBB_COUNT - 1), tileset \in 1..MaxTileset,
          n \in TilesetLengths :
          /\ mem' = load_tileset(mem, cbb, tileset, n)
          /\ mcall' = [name |-> "load_tileset", slot |-> cbb,
                       tileset |-> tileset, len |-> n, was |-> mem,
                       made |-> mcall.made + 1]
    /\ UNCHANGED mpanic
    /\ UNCHANGED not_vmem

TilesetNext == LoadTileset \/ TileReturn

SpecTileset == TilesetInit /\ [][TilesetNext]_vars


\* ---- sprite tile memory (haldvance video.rs, object.rs, sprite.rs) -------
\* Shape::tile_count of the sprite with an id: every sprite has one shape
tile_count(id) == IF id = 1 THEN 1 ELSE MaxSize

\* OBJ_SPRITE.write_slice_at_offset(offset, data) for the n tiles of the
\* sprite id: tile t of the sprite goes to the unit offset + t while that
\* unit is inside the block
write_slice_at_offset(cells, offset, id, n) ==
    [u \in DOMAIN cells \cup {u \in offset..(offset + n - 1) : u < FullSize} |->
        IF u >= offset /\ u < offset + n THEN <<id, u - offset>> ELSE cells[u]]

\* Control::load_sprite and load_sprite_sheet
load_sprite(b, cells, id) ==
    LET reserved == insert_sized(b, id, tile_count(id))
    IN  [blocks |-> reserved.blocks, ret |-> reserved.ret,
         cells |-> IF reserved.ret = None THEN cells
                   ELSE write_slice_at_offset(cells, reserved.ret, id,
                                              tile_count(id))]

\* ---- sprite loading as a state machine ----------------------------------
not_sprite ==
    <<bitset_vars, object_vars, handle_vars, game_vars, mpanic, space>>

SpriteInit ==
    /\ blocks = new
    /\ op = NoCall
    /\ ret = None
    /\ prev = new
    /\ NotBlocksIdle

LoadSprite ==
    /\ op = NoCall
    /\ \E id \in Ids :
          /\ blocks' = load_sprite(blocks, mem, id).blocks
          /\ ret' = load_sprite(blocks, mem, id).ret
          /\ mem' = load_sprite(blocks, mem, id).cells
          /\ op' = [name |-> "load_sprite", id |-> id, new_id |-> 0,
                    size |-> tile_count(id)]
    /\ prev' = blocks
    /\ mcall' = [name |-> "load_sprite", was |-> mem, made |-> 0]
    /\ UNCHANGED not_sprite

\* Control::unload_sprite and unload_sprite_sheet
UnloadSprite ==
    /\ op = NoCall
    /\ \E id \in Ids :
          /\ blocks' = remove(blocks, id).blocks
          /\ ret' = remove(blocks, id).ret
          /\ op' = [name |-> "unload_sprite", id |-> id, new_id |-> 0,
                    size |-> 0]
    /\ prev' = blocks
    /\ mcall' = [name |-> "unload_sprite", was |-> mem, made |-> 0]
    /\ UNCHANGED mem
    /\ UNCHANGED not_sprite

\* the caller has taken the result
SpriteReturn ==
    /\ op # NoCall
    /\ op' = NoCall
    /\ ret' = None
    /\ prev' = new
    /\ mcall' = NoTileCall
    /\ UNCHANGED <<blocks, mem>>
    /\ UNCHANGED not_sprite

SpriteNext == LoadSprite \/ UnloadSprite \/ SpriteReturn

SpecSprite == SpriteInit /\ [][SpriteNext]_vars


\* ---- Windowed (haldvance video/tile/drawable.rs) -------------------------
\* iter.take(n) of the tiles of a row
take_tiles(tiles, n) == SubSeq(tiles, 1, IF Len(tiles) < n THEN Len(tiles) ELSE n)

\* the closure of Windowed::for_each_line on one row of the inner drawable:
\* window.width - pos.x is a subtraction in u16, which panics on overflow in
\* a build with overflow checks and wraps in one without; the sink f gets
\* the position of the row and the tiles taken
windowed_row(st, row, window, overflow_checks) ==
    IF st.panic THEN st
    ELSE IF window.width < row.pos.x /\ overflow_checks
    THEN [st EXCEPT !.panic = TRUE]
    ELSE LET relative_width == (window.width - row.pos.x + U16) % U16
         IN  [st EXCEPT !.lines =
                 Append(@, [pos |-> row.pos,
                            tiles |-> take_tiles(row.tiles, relative_width)])]

\* Windowed::for_each_line: what the sink is called with, row after row
RECURSIVE windowed_from(_, _, _, _, _)
windowed_from(st, inner, window, overflow_checks, r) ==
    IF r > Len(inner) THEN st
    ELSE windowed_from(windowed_row(st, inner[r], window, overflow_checks),
                       inner, window, overflow_checks, r + 1)

for_each_line(inner, window, overflow_checks) ==
    windowed_from([lines |-> <<>>, panic |-> FALSE], inner, window,
                  overflow_checks, 1)

\* ---- drawing a Windowed as a state machine ------------------------------
\* the columns and rows of the positions and of the windows
MaxCoord == 2

WindowRows == [pos : {Pos(x, y) : x \in 0..MaxCoord, y \in 0..MaxCoord},
               tiles : TileLists]

WindowInners == UNION {[1..n -> WindowRows] : n \in 1..MaxRows}

Windows == {Rect(w, h) : w \in 0..MaxCoord, h \in 0..MaxCoord}

WindowedInit ==
    /\ VmemIdle
    /\ NotVmemIdle

\* a draw of Windowed { inner, window } into a sink that keeps what it gets
ForEachLine ==
    /\ can_call
    /\ \E inner \in WindowInners, window \in Windows, overflow_checks \in BOOLEAN :
          LET st == for_each_line(inner, window, overflow_checks)
          IN  /\ mcall' = [name |-> "for_each_line", inner |-> inner,
                           window |-> window, lines |-> st.lines,
                           made |-> mcall.made + 1]
              /\ mpanic' = st.panic
    /\ UNCHANGED mem
    /\ UNCHANGED not_vmem

WindowedNext == ForEachLine \/ TileReturn

SpecWindowed == WindowedInit /\ [][WindowedNext]_vars


\* ---- inserts and removes that succeed ----------------------------------
\* The caller goes on only after a call that succeeded: an insert_sized that
\* returned an offset, a remove that returned true. A behaviour is then a
\* sequence of successful inserts and removes followed by one call of any
\* outcome.
ReturnOk ==
    /\ \/ op.name = "insert_sized" /\ ret # None
       \/ op.name = "remove" /\ ret = TRUE
    /\ op' = NoCall
    /\ ret' = None
    /\ prev' = new
    /\ UNCHANGED blocks
    /\ UNCHANGED not_blocks

RecycleNext == InsertSized \/ Remove \/ ReturnOk

SpecRecycle == BlocksInit /\ [][RecycleNext]_vars


\* ---- Image (gbassets) ----------------------------------------------------
\* the loop of Image::set_tiles from the state (x, y, i) on: tiles is the
\* slice, whose first element is tiles[1] here
RECURSIVE set_tiles_loop(_, _, _, _, _, _, _)
set_tiles_loop(tiles, image_offset, image_width, tileset_width, x, y, i) ==
    LET oob_slice == i >= Len(tiles)
        oob_image == y >= image_width
    IN  IF oob_image \/ oob_slice THEN tiles
        ELSE set_tiles_loop(
                [tiles EXCEPT ![i + 1] =
                    (image_offset + y * tileset_width + x) % U16],
                image_offset, image_width, tileset_width,
                IF x + 1 >= image_width THEN 0 ELSE x + 1,
                IF x + 1 >= image_width THEN y + 1 ELSE y,
                i + 1)

\* Image::set_tiles
Image_set_tiles(image_offset, image_width, tileset_width, tiles) ==
    set_tiles_loop(tiles, image_offset, image_width, tileset_width, 0, 0, 0)

\* the image! macro: a slice of image_width * image_height zeros, filled by
\* set_tiles
image(image_offset, image_width, image_height, tileset_width) ==
    Image_set_tiles(image_offset, image_width, tileset_width,
                    [t \in 1..(image_width * image_height) |-> 0])

\* ---- declaring images as a state machine --------------------------------
\* the widths and heights of an image, in tiles
MaxImage == 3

\* where an image starts in its tileset
ImageOffsets == {0, 1, 7}

ImageInit ==
    /\ VmemIdle
    /\ NotVmemIdle

\* an image! declaration
DeclareImage ==
    /\ can_call
    /\ \E image_offset \in ImageOffsets, image_width \in 0..MaxImage,
          image_height \in 0..MaxImage, wider \in 0..1 :
          mcall' = [name |-> "image", offset |-> image_offset,
                    width |-> image_width, height |-> image_height,
                    tileset_width |-> image_width + wider,
                    tiles |-> image(image_offset, image_width, image_height,
                                    image_width + wider),
                    made |-> mcall.made + 1]
    /\ UNCHANGED <<mem, mpanic>>
    /\ UNCHANGED not_vmem

ImageNext == DeclareImage \/ TileReturn

SpecImage == ImageInit /\ [][ImageNext]_vars


\* ---- the Space state of the game (src/game/space.rs, ship.rs) ------------
\* the capacities of the bullet list and of the item list
MAX_BULLETS == 2

MAX_ITEMS == 1

\* Bullet::new_from_player and Item::new, by the Slot the entity owns
Entity(slot) == [slot |-> slot]

\* Space::start with the player's Slot
Space_start(player_slot) ==
    [pass |-> "update", player |-> player_slot,
     bullets |-> <<>>, new_bullets |-> {},
     items |-> <<>>, new_items |-> {},
     frames |-> 0]

\* a spawn of Space::update: reserve_object, then try_push of the entity that
\* owns the Slot; on Ok the index of the entity gets its new-entry flag, on
\* Err the entity is dropped with its Slot. `dropped` is the index of a Slot
\* that went out of scope without free_object (None when there is none).
try_spawn(objects, entities, fresh, capacity) ==
    LET reserved == Allocator_reserve(objects)
    IN  IF reserved.ret = None
        THEN [objects |-> objects, entities |-> entities, fresh |-> fresh,
              dropped |-> None]
        ELSE IF Len(entities) < capacity
        THEN [objects |-> reserved.objects,
              entities |-> Append(entities, Entity(reserved.ret)),
              fresh |-> reserve(fresh, Len(entities)).bits,
              dropped |-> None]
        ELSE [objects |-> reserved.objects, entities |-> entities,
              fresh |-> fresh, dropped |-> reserved.ret]

\* the filter_map of Space::affine_draw over a drained list, from entity i
\* on (the first entity is entities[1], with index 0 in the code): an entity
\* that should die gives its Slot to free_object, any other one has its
\* new-entry flag cleared and stays
RECURSIVE drain_from(_, _, _, _)
drain_from(st, entities, dying, i) ==
    IF i > Len(entities) THEN st
    ELSE IF i \in dying
    THEN drain_from([st EXCEPT !.objects =
                        Allocator_free(@, entities[i].slot)],
                    entities, dying, i + 1)
    ELSE drain_from([st EXCEPT !.fresh = free(@, i - 1).bits,
                               !.entities = Append(@, entities[i])],
                    entities, dying, i + 1)

drain(objects, entities, fresh, dying) ==
    drain_from([objects |-> objects, entities |-> <<>>, fresh |-> fresh],
               entities, dying, 1)

\* the Slot indices that a spawn has dropped
dropped_by(spawned) ==
    IF spawned.dropped = None THEN EmptyBag ELSE SetToBag({spawned.dropped})

\* ---- the Space state as a state machine ---------------------------------
\* the frames that are followed
MaxFrames == 3

not_space ==
    <<blocks_vars, bcall, bret, bprev, slots, handle_vars, game_vars,
      vmem_vars>>

\* the player's Slot comes from reserve_object on a new allocator
SpaceInit ==
    /\ bits = Allocator_reserve({}).objects
    /\ space = Space_start(Allocator_reserve({}).ret)
    /\ bcall = NoBitCall /\ bret = None /\ bprev = {}
    /\ ObjectsIdle
    /\ BlocksIdle /\ HandleIdle /\ GameIdle /\ VmemIdle

\* Space::update: with the PowerupSpawn cheat and the random bits for it an
\* item is spawned; Player::update gives a bullet when A is pressed and the
\* cooldown is over, and reserve_object gives a Slot
SpaceUpdate ==
    /\ space.pass = "update"
    /\ space.frames < MaxFrames
    /\ \E should_spawn \in BOOLEAN, fire \in BOOLEAN :
          LET item == IF should_spawn
                      THEN try_spawn(bits, space.items, space.new_items,
                                     MAX_ITEMS)
                      ELSE [objects |-> bits, entities |-> space.items,
                            fresh |-> space.new_items, dropped |-> None]
              bullet == IF fire
                        THEN try_spawn(item.objects, space.bullets,
                                       space.new_bullets, MAX_BULLETS)
                        ELSE [objects |-> item.objects,
                              entities |-> space.bullets,
                              fresh |-> space.new_bullets, dropped |-> None]
          IN  /\ bits' = bullet.objects
              /\ space' = [space EXCEPT !.pass = "draw",
                                        !.items = item.entities,
                                        !.new_items = item.fresh,
                                        !.bullets = bullet.entities,
                                        !.new_bullets = bullet.fresh]
              /\ leaked' = leaked (+) dropped_by(item) (+) dropped_by(bullet)
    /\ UNCHANGED not_space

\* Space::affine_draw: the bullets and items that should die (off screen,
\* timed out, picked up) are those at the positions dying_bullets and
\* dying_items; the object attributes it sets are not part of this state
SpaceDraw ==
    /\ space.pass = "draw"
    /\ \E dying_bullets \in SUBSET (1..Len(space.bullets)),
          dying_items \in SUBSET (1..Len(space.items)) :
          LET bullet == drain(bits, space.bullets, space.new_bullets,
                              dying_bullets)
              item == drain(bullet.objects, space.items, space.new_items,
                            dying_items)
          IN  /\ bits' = item.objects
              /\ space' = [space EXCEPT !.pass = "update",
                                        !.bullets = bullet.entities,
                                        !.new_bullets = bullet.fresh,
                                        !.items = item.entities,
                                        !.new_items = item.fresh,
                                        !.frames = @ + 1]
    /\ UNCHANGED leaked
    /\ UNCHANGED not_space

SpaceNext == SpaceUpdate \/ SpaceDraw

SpecSpace == SpaceInit /\ [][SpaceNext]_vars

\* ---- what the claims speak of -------------------------------------------
\* id holds a span
present(b, id) == \E i \in 1..Len(b) : has_id(b[i], id)

\* where entry i starts: the sizes before it, as a number (not as a u16)
RECURSIVE start_of(_, _)
start_of(b, i) == IF i <= 1 THEN 0 ELSE start_of(b, i - 1) + b[i - 1].size

\* entry i lies inside [0, full_size)
inside(b, i) == start_of(b, i) + b[i].size <= FullSize

\* the span of id: where its first entry starts and that entry's size
span_of(b, id) ==
    [offset |-> start_of(b, index_of(b, id)), size |-> b[index_of(b, id)].size]

\* the call is made for id: as the id of insert_sized and remove, as old or
\* new of replace_id
names_id(call, id) == call.id = id \/ call.new_id = id

\* ---- C1 ----------------------------------------------------------------
\* C1: whenever insert_sized(id, size) returns Some(offset), the span it names
\* lies inside [0, full_size): offset + (size recorded for id) <= full_size,
\* also when the call only returns the offset of an id that is present.
C1_SpanInsideFullSize ==
    (op.name = "insert_sized" /\ ret # None)
        => ret + span_of(blocks, op.id).size <= FullSize

\* ---- C2 ----------------------------------------------------------------
\* C2: in every reachable state each id appears in at most one Full entry.
C2_IdInOneEntry ==
    \A i, j \in 1..Len(blocks) :
        (blocks[i].full /\ blocks[j].full /\ blocks[i].id = blocks[j].id) => i = j

\* ---- C3 ----------------------------------------------------------------
\* C3: an id that holds a span inside [0, full_size) keeps its offset and its
\* size over every call that is made for other ids, whether the call succeeds
\* or returns none.
C3_StableHandles ==
    \A id \in Ids :
        ( /\ op # NoCall
          /\ ~names_id(op, id)
          /\ present(prev, id)
          /\ inside(prev, index_of(prev, id)) )
        => (present(blocks, id) /\ span_of(blocks, id) = span_of(prev, id))

\* ---- C4 ----------------------------------------------------------------
\* C4: insert_sized(id, n) for an id that holds a span returns the offset of
\* that span and leaves the entry list as it was; and after any insert_sized
\* that returned an offset, the same call made again returns that offset and
\* changes nothing.
C4_InsertExistingIsIdempotent ==
    op.name = "insert_sized" =>
        /\ present(prev, op.id) =>
              (blocks = prev /\ ret = span_of(prev, op.id).offset)
        /\ ret # None =>
              insert_sized(blocks, op.id, op.size) = [blocks |-> blocks, ret |-> ret]

\* the id was present, between other entries, when insert_sized was called
C4_Witness ==
    /\ op.name = "insert_sized"
    /\ present(prev, op.id)
    /\ index_of(prev, op.id) > 1
    /\ \E i \in 1..Len(prev) : is_gap(prev[i]) /\ prev[i].size >= op.size
    /\ op.size # span_of(prev, op.id).size

\* ---- C5 ----------------------------------------------------------------
\* C5: for an id that is not present, when a gap of size >= n exists and the
\* entry list has room for the entry a split needs, insert_sized(id, n)
\* returns the start of the lowest gap of size >= n.
C5_FirstFit ==
    LET g == first_gap_of_size(prev, op.size)
    IN  ( /\ op.name = "insert_sized"
          /\ ~present(prev, op.id)
          /\ g # 0
          /\ (prev[g].size = op.size \/ Len(prev) < MAX_BLOCKS) )
        => ret = start_of(prev, g)

\* ---- C6 ----------------------------------------------------------------
\* C6: remove(id) returns true exactly when id holds a span; then the entry of
\* id has become free space, id is no longer present and every other id keeps
\* its offset and size; when it returns false the entry list is unchanged.
C6_Remove ==
    op.name = "remove" =>
        /\ ret = present(prev, op.id)
        /\ ret = TRUE =>
              /\ ~present(blocks, op.id)
              /\ \A id \in Ids \ {op.id} :
                    present(prev, id) =>
                        (present(blocks, id) /\ span_of(blocks, id) = span_of(prev, id))
        /\ ret = FALSE => blocks = prev

\* ---- C7 ----------------------------------------------------------------
\* C7: replace_id(old, new, size), new another id than old, succeeds exactly
\* when an entry Full(old, size) exists; it then returns the offset of that
\* entry, new holds the span at that offset with that size, old holds none
\* and every other entry is unchanged; otherwise it returns none and the
\* entry list is unchanged.
C7_ReplaceId ==
    LET found == index_of_expected(prev, op.id, op.size)
    IN  (op.name = "replace_id" /\ op.new_id # op.id) =>
            /\ (ret # None) = (found # 0)
            /\ found # 0 =>
                  /\ ret = start_of(prev, found)
                  /\ present(blocks, op.new_id)
                  /\ span_of(blocks, op.new_id) = [offset |-> ret, size |-> op.size]
                  /\ ~present(blocks, op.id)
                  /\ Len(blocks) = Len(prev)
                  /\ \A i \in 1..Len(prev) : i # found => blocks[i] = prev[i]
            /\ found = 0 => blocks = prev

\* ---- C8 ----------------------------------------------------------------
\* C8: once the last entry of the list (starting at offset o) was removed, an
\* insert of a new id whose size is larger than the removed size is placed at
\* offset o: the gap left at the end is discarded.
C8_TrailingGapDiscarded ==
    LET last == Len(prev)
    IN  ( /\ op.name = "remove"
          /\ ret = TRUE
          /\ index_of(prev, op.id) = last )
        => \A id \in Ids, n \in Sizes :
              ( /\ ~present(blocks, id)
                /\ n > prev[last].size
                /\ start_of(prev, last) + n <= FullSize )
              => insert_sized(blocks, id, n).ret = start_of(prev, last)

\* ---- C9 ----------------------------------------------------------------
\* The last call removed id `a`; `b` is the id of an entry that was next to
\* the entry of `a`, and both spans lay inside [0, full_size).
C9_adjacent(a, b) ==
    /\ op.name = "remove" /\ op.id = a /\ ret = TRUE
    /\ b # a
    /\ present(prev, b)
    /\ index_of(prev, b) \in {index_of(prev, a) - 1, index_of(prev, a) + 1}
    /\ inside(prev, index_of(prev, a))
    /\ inside(prev, index_of(prev, b))

\* the entry of the two that comes first, and the sum of the two sizes
C9_first(a, b) ==
    IF index_of(prev, a) < index_of(prev, b)
    THEN index_of(prev, a) ELSE index_of(prev, b)

C9_total(a, b) == prev[index_of(prev, a)].size + prev[index_of(prev, b)].size

\* no gap of size >= n at a lower offset, and no gap right before the two
C9_no_gap_before(a, b, n) ==
    \A k \in 1..(C9_first(a, b) - 1) :
        is_gap(prev[k]) => (prev[k].size < n /\ k # C9_first(a, b) - 1)

C10_split ==
    LET g == first_gap_of_size(prev, op.size)
    IN  /\ op.name = "insert_sized"
        /\ ~present(prev, op.id)
        /\ g # 0
        /\ prev[g].size > op.size
        /\ Len(prev) < MAX_BLOCKS
        /\ start_of(prev, g) + prev[g].size <= FullSize

C10_gap == first_gap_of_size(prev, op.size)

C10_rest == prev[C10_gap].size - op.size

\* the span sits at the start of the gap, the rest of the gap right after it
C10_placed ==
    /\ ret = start_of(prev, C10_gap)
    /\ blocks = insert_at([prev EXCEPT ![C10_gap] = Full(op.id, op.size)],
                          C10_gap + 1, Gap(C10_rest))

extent(b) == start_of(b, Len(b) + 1)

\* the last call was insert_sized of an absent id and no gap was large enough
C11_no_gap_fits ==
    /\ op.name = "insert_sized"
    /\ ~present(prev, op.id)
    /\ first_gap_of_size(prev, op.size) = 0

\* C11 as stated: when no gap is large enough for an absent id, the span is
\* appended after all entries, which stay as they were, and the call returns
\* the sum of the sizes of all entries before it.
C11_AppendReturnsExtent ==
    C11_no_gap_fits =>
        (blocks = Append(prev, Full(op.id, op.size)) /\ ret = extent(prev))

\* C11 as amended: the entries that were there stay as they were; with room
\* in the entry list and extent + size <= full_size the span is appended and
\* the call returns the extent, otherwise the call returns none.
C11_AppendWithinCapacity ==
    C11_no_gap_fits =>
        /\ SubSeq(blocks, 1, Len(prev)) = prev
        /\ IF Len(prev) < MAX_BLOCKS /\ extent(prev) + op.size <= FullSize
           THEN blocks = Append(prev, Full(op.id, op.size)) /\ ret = extent(prev)
           ELSE ret = None

\* a span was appended behind a gap that was too small for it
C11_Witness ==
    /\ C11_no_gap_fits
    /\ ret # None
    /\ \E i \in 1..Len(prev) : is_gap(prev[i])

\* ---- C12 ---------------------------------------------------------------
\* C12: in every reachable state the sum of the sizes of all entries is
\* <= full_size.
C12_ExtentWithinFullSize == extent(blocks) <= FullSize

\* ---- C13 ---------------------------------------------------------------
\* C13: in every reachable state no two neighbouring entries are both gaps,
\* and cleanup leaves the entry list as it is.
C13_NoAdjacentGaps ==
    /\ \A i \in 1..(Len(blocks) - 1) : ~(is_gap(blocks[i]) /\ is_gap(blocks[i + 1]))
    /\ cleanup(blocks) = blocks

\* a remove next to a gap: the two gaps became one entry
C13_Witness ==
    /\ op.name = "remove"
    /\ ret = TRUE
    /\ Len(blocks) < Len(prev)

\* ---- C14 ---------------------------------------------------------------
\* the Full entries of the first n entries, in order, each with its offset
RECURSIVE full_spans(_, _)
full_spans(b, n) ==
    IF n = 0 THEN <<>>
    ELSE IF b[n].full
         THEN Append(full_spans(b, n - 1),
                     [id |-> b[n].id, size |-> b[n].size, offset |-> start_of(b, n)])
         ELSE full_spans(b, n - 1)

\* every maximal run of gaps of `before` is one gap of `after`, of the sum of
\* the run; the Full entries and the extent are those of `before`
C14_runs_merged(before, after) ==
    /\ \A i \in 1..(Len(after) - 1) : ~(is_gap(after[i]) /\ is_gap(after[i + 1]))
    /\ \A i \in 1..Len(before) :
          is_gap(before[i]) => \E j \in 1..Len(after) :
              /\ is_gap(after[j])
              /\ start_of(after, j) <= start_of(before, i)
              /\ start_of(before, i) + before[i].size
                    <= start_of(after, j) + after[j].size
    /\ full_spans(after, Len(after)) = full_spans(before, Len(before))
    /\ extent(after) = extent(before)

AllIndices == 0..(INDEX_COUNT - 1)

\* C15: after any sequence of reserve and free calls with indices in 0..127,
\* first_free returns the lowest index whose bit is clear, and none exactly
\* when all 128 bits are set.
C15_FirstFreeIsLowestClear ==
    bcall.name = "first_free" =>
        /\ bret = None <=> bits = AllIndices
        /\ bret # None =>
              /\ bret \in AllIndices \ bits
              /\ \A i \in AllIndices \ bits : bret <= i

\* first_free answered while a bit above the lowest clear one was set
C15_Witness ==
    /\ bcall.name = "first_free"
    /\ bret = 1
    /\ 2 \in bits

\* first_free answered none
C15_WitnessAllSet ==
    /\ bcall.name = "first_free"
    /\ bret = None

\* ---- C16 ---------------------------------------------------------------
\* C16: reserve(i) sets bit i and returns true exactly when bit i was set;
\* free(i) clears bit i and returns true exactly when bit i was clear; both
\* leave every other bit as it was, so a reserve of an index that was just
\* freed returns false.
C16_ReserveFreeFlags ==
    /\ bcall.name = "reserve" =>
          /\ bcall.index \in bits
          /\ bret = (bcall.index \in bprev)
          /\ bits \ {bcall.index} = bprev \ {bcall.index}
    /\ bcall.name = "free" =>
          /\ bcall.index \notin bits
          /\ bret = (bcall.index \notin bprev)
          /\ bits \ {bcall.index} = bprev \ {bcall.index}
          /\ reserve(bits, bcall.index).ret = FALSE

\* a set bit was freed while other bits were set
C16_Witness ==
    /\ bcall.name = "free"
    /\ bret = FALSE
    /\ bits # {}

\* ---- C17 ---------------------------------------------------------------
\* C17: Allocator::reserve returns a slot with index in 0..127 that no
\* outstanding Slot holds, so no two outstanding Slots share an index and the
\* assert never fails; it returns None exactly when all 128 slots are
\* outstanding, and then changes nothing.
C17_ReserveGivesUnusedSlot ==
    /\ \A i \in BagToSet(outstanding) : CopiesIn(i, outstanding) = 1
    /\ bcall.name = "Allocator::reserve" =>
          /\ ~Allocator_reserve(bprev).panic
          /\ bret # None => bret \in AllIndices
          /\ bret = None =>
                BagCardinality(outstanding) = INDEX_COUNT /\ bits = bprev
          /\ bret # None => BagCardinality(outstanding) <= INDEX_COUNT

\* ---- C18 ---------------------------------------------------------------
\* C18: the index of a Slot that was dropped without free is never returned
\* by a later reserve, and once 128 slots are outstanding or leaked every
\* reserve returns None.
C18_LeakedSlotStaysReserved ==
    bcall.name = "Allocator::reserve" =>
        /\ bret # None => CopiesIn(bret, leaked) = 0
        /\ bret # None => BagCardinality(outstanding) <= INDEX_COUNT

\* ---- C19 ---------------------------------------------------------------
\* the hardware record of the handle
register == IF handle.kind \in LayerKinds THEN bg ELSE oam

\* call i is the last call of its setter
last_of_setter(i) ==
    \A j \in (i + 1)..Len(calls) : calls[j].name # calls[i].name

\* the record carries the argument of the call
carries(record, call) ==
    \A f \in DOMAIN assigns(handle.kind, call.name, call.arg) :
        record[f] = assigns(handle.kind, call.name, call.arg)[f]

\* no setter that was called assigns the field
untouched(f) ==
    \A i \in 1..Len(calls) :
        f \notin DOMAIN assigns(handle.kind, calls[i].name, calls[i].arg)

\* C19: a handle reads the hardware record once, when it is made; its setters
\* change only its own copy; the hardware record is written exactly once,
\* when the handle's scope ends, and then carries the last argument of every
\* setter called and, in the fields no setter touched, what was read.
C19_WriteBackOnce ==
    /\ handle.kind # "none" => access.reads = 1
    /\ handle.live => access.writes = 0 /\ register = handle.read
    /\ handle.kind # "none" /\ ~handle.live =>
          /\ access.writes = 1
          /\ \A i \in 1..Len(calls) :
                last_of_setter(i) => carries(register, calls[i])
          /\ \A f \in DOMAIN register :
                untouched(f) => register[f] = handle.read[f]

\* ---- C20 ---------------------------------------------------------------
\* the field whose former value a layer setter returns
C20_field ==
    [set_priority |-> "priority",
     set_sbb |-> "screen_base_block",
     set_cbb |-> "char_base_block"]

\* the calls before the last one that were calls of the same setter
C20_earlier ==
    {i \in 1..(Len(calls) - 1) : calls[i].name = calls[Len(calls)].name}

\* C20: within one layer handle, set_priority, set_sbb and set_cbb return
\* what their field held just before the call: what was read when the handle
\* was made for the first call on the field, the argument of the preceding
\* call on the field afterwards.
C20_SetterReturnsPrevious ==
    (/\ handle.kind \in LayerKinds
     /\ calls # <<>>
     /\ calls[Len(calls)].name \in DOMAIN C20_field) =>
        IF C20_earlier = {}
        THEN hret = handle.read[C20_field[calls[Len(calls)].name]]
        ELSE \E i \in C20_earlier :
                /\ \A j \in C20_earlier : j <= i
                /\ hret = calls[i].arg

\* the second set_sbb of a handle returned the argument of the first, which
\* is not what was read when the handle was made
C20_Witness ==
    /\ handle.kind \in LayerKinds
    /\ Len(calls) = 2
    /\ calls[1].name = "set_sbb" /\ calls[2].name = "set_sbb"
    /\ hret = calls[1].arg
    /\ hret # handle.read.screen_base_block

\* ---- C21 ---------------------------------------------------------------
\* C21: enter_mode<N> changes only the display-mode field of the
\* display-control register, to the code of N (Text 0, Mixed 1, Affine 2);
\* the layer and object bits of the register, video memory and the allocator
\* state stay as they are.
C21_EnterModeChangesModeOnly ==
    [][(pc = "enter" /\ pc' = "enter_hook") =>
        /\ enter_video_mode = "Text" => dispcnt'.display_mode = 0
        /\ enter_video_mode = "Mixed" => dispcnt'.display_mode = 1
        /\ enter_video_mode = "Affine" => dispcnt'.display_mode = 2
        /\ dispcnt'.display_bg = dispcnt.display_bg
        /\ dispcnt'.display_obj = dispcnt.display_obj
        /\ dispcnt'.obj_vram_1d = dispcnt.obj_vram_1d
        /\ UNCHANGED <<vram, bg, oam, bits, blocks, slots, leaked>>]_vars

\* enter_mode<Affine> has run while a layer was displayed and video memory
\* and the allocator were in use
C21_Witness ==
    /\ pc = "enter_hook"
    /\ dispcnt.display_mode = 2
    /\ dispcnt.display_bg # {}
    /\ vram = 1
    /\ bits # {}

\* ---- C22 ---------------------------------------------------------------
\* what has run in the frame, by name
C22_names == [i \in 1..Len(events) |-> events[i].name]

C22_draws == {"text_draw", "mixed_draw", "affine_draw"}

\* the orders of a whole frame
C22_orders ==
    {<<"sample", "logic", "vblank">> \o entry \o <<draw, "vdraw">> :
        entry \in {<<>>, <<"enter">>}, draw \in C22_draws}

C22_last == events[Len(events)].name

\* C22: every frame of full_game runs input sample (previous := former
\* current, current := key register) and frame counter increment, logic hook,
\* wait for vertical blank, optional mode entry, exactly one draw hook, wait
\* for vertical draw, in this order; no draw hook starts before the vblank
\* wait of its frame is over, and the next frame starts only when the vdraw
\* wait is over.
C22_FrameOrder ==
    /\ \E order \in C22_orders :
          /\ Len(events) <= Len(order)
          /\ C22_names = SubSeq(order, 1, Len(events))
    /\ events # <<>> =>
          /\ input = [previous |-> events[1].former, current |-> events[1].read]
          /\ frame = events[1].frame_was + 1
    /\ pc = "sample" => events = <<>> \/ C22_last = "vdraw"
    /\ pc = "logic" => C22_last = "sample"
    /\ pc = "vblank" => C22_last = "logic"
    /\ pc \in {"enter", "enter_hook"} => C22_last = "vblank"
    /\ pc = "draw" => C22_last \in {"vblank", "enter"}
    /\ pc = "vdraw" => C22_last \in C22_draws

\* a second frame, with a mode entry and a new key state, is over
C22_Witness ==
    /\ pc = "sample"
    /\ frame = 2
    /\ Len(events) = 6
    /\ input.current # input.previous

\* ---- C23 ---------------------------------------------------------------
\* the hooks that are handed a Control
C23_hooks == {i \in 1..Len(events) : events[i].name \in C22_draws \cup {"enter"}}

\* what the logic hook of the frame asked for
C23_request == events[2].request

\* C23: exactly one Control exists at every moment; the draw hook of a frame
\* is the one of the mode last written to the display-control register (Text
\* at start); when the logic hook asks for a mode, the enter hook runs once,
\* with a Control of that mode, and the draw hook of the same frame is the one
\* of that mode; no hook is handed a Control of another mode than the
\* current one.
C23_OneControlOfCurrentMode ==
    /\ BagCardinality(controls) = 1
    /\ BagIn(video_control, controls)
    /\ \A i \in C23_hooks :
          /\ TYPE[events[i].handle] = events[i].mode
          /\ events[i].name \in C22_draws =>
                events[i].name =
                    CASE events[i].mode = 0 -> "text_draw"
                      [] events[i].mode = 1 -> "mixed_draw"
                      [] events[i].mode = 2 -> "affine_draw"
    /\ (pc \in {"draw", "vdraw"} \/ (pc = "sample" /\ events # <<>>)) =>
          IF C23_request \in VideoModes
          THEN /\ Cardinality({i \in C23_hooks : events[i].name = "enter"}) = 1
               /\ \A i \in C23_hooks : events[i].handle = C23_request
          ELSE \A i \in C23_hooks : events[i].name # "enter"

\* the logic hook asked for the Affine mode, and the enter hook and the draw
\* hook of the frame have run
C23_Witness ==
    /\ pc = "vdraw"
    /\ C23_request = "Affine"
    /\ Len(events) = 5
    /\ events[5].name = "affine_draw"

\* ---- text tile maps ------------------------------------------------------
\* the k-th tile of row r of the drawable of the observed call goes to this
\* cell, offsets added as numbers
drawn_cell(r, k) ==
    Pos(mcall.drawable[r].pos.x + mcall.offset.x + (k - 1),
        mcall.drawable[r].pos.y + mcall.offset.y)

\* the tiles of the drawable whose cell is inside the declared region
drawn_inside ==
    {t \in (1..Len(mcall.drawable)) \X (1..2) :
        /\ t[2] <= Len(mcall.drawable[t[1]].tiles)
        /\ contains(text_region[mcall.size], drawn_cell(t[1], t[2]))}

\* the row-major index of a cell
row_major(pos) == pos.x + pos.y * text_region[mcall.size].width

\* the tiles that go to the cell of index i, and the last of them in the
\* order of the drawable
drawn_at(i) == {t \in drawn_inside : row_major(drawn_cell(t[1], t[2])) = i}

drawn_last(i) ==
    CHOOSE t \in drawn_at(i) :
        \A u \in drawn_at(i) :
            u[1] < t[1] \/ (u[1] = t[1] /\ u[2] <= t[2])

drawn_indices == {row_major(drawn_cell(t[1], t[2])) : t \in drawn_inside}

\* C24: after set_tiles(offset, d) every tile of d whose cell p + offset +
\* (k, 0) is inside the declared region is in that cell, at the row-major
\* index x + y * width, the tiles whose cell is outside are skipped, and no
\* other cell was written.
C24_SetTilesWritesCroppedCells ==
    mcall.name = "set_tiles" =>
        /\ ~mpanic
        /\ DOMAIN mem = DOMAIN mcall.was \cup drawn_indices
        /\ \A i \in DOMAIN mem :
              mem[i] = IF i \in drawn_indices
                       THEN mcall.drawable[drawn_last(i)[1]].tiles[drawn_last(i)[2]]
                       ELSE mcall.was[i]

\* C25: after clear_tiles(offset, d) every in-region cell that set_tiles
\* (offset, d) writes holds the empty tile, the positions of d outside the
\* region are skipped, and no other cell was written.
C25_ClearTilesStaysInRegion ==
    mcall.name = "clear_tiles" =>
        /\ ~mpanic
        /\ DOMAIN mem = DOMAIN mcall.was \cup drawn_indices
        /\ \A i \in DOMAIN mem :
              mem[i] = IF i \in drawn_indices THEN EMPTY ELSE mcall.was[i]

\* ---- affine tile maps ----------------------------------------------------
\* the tile entry of a map at an offset: a half of the word offset / 2
tile_of(cells, offset) ==
    IF offset % 2 = 0
    THEN entry_of(word_at(cells, offset \div 2)).left
    ELSE entry_of(word_at(cells, offset \div 2)).right

\* the observed set_line starts inside the map
line_inside == contains(affine_region[mcall.size], mcall.pos)

\* the tiles of the line that fit in the row
line_fits ==
    IF Len(mcall.tiles) < affine_region[mcall.size].width - mcall.pos.x
    THEN Len(mcall.tiles)
    ELSE affine_region[mcall.size].width - mcall.pos.x

\* the offset of the cell (pos.x + k, pos.y)
line_offset(k) ==
    mcall.pos.x + k + mcall.pos.y * affine_region[mcall.size].width

line_offsets == IF line_inside THEN {line_offset(k) : k \in 0..(line_fits - 1)}
                ELSE {}

\* C26: set_line(pos, tiles) with pos inside the map leaves the k-th tile in
\* the cell (pos.x + k, pos.y) for every k below the length of tiles and below
\* width - pos.x, and every other tile entry as it was, the other half of a
\* word it wrote included; with pos outside the map it writes nothing.
C26_SetLineWritesCroppedLine ==
    mcall.name = "set_line" =>
        /\ \A k \in 0..(line_fits - 1) :
              line_inside => tile_of(mem, line_offset(k)) = mcall.tiles[k + 1]
        /\ \A w \in DOMAIN mem \cup DOMAIN mcall.was :
              \A offset \in {2 * w, 2 * w + 1} \ line_offsets :
                  tile_of(mem, offset) = tile_of(mcall.was, offset)
        /\ DOMAIN mem \subseteq
              DOMAIN mcall.was \cup {offset \div 2 : offset \in line_offsets}
        /\ ~line_inside => mem = mcall.was

\* a line that starts at the last, odd, column of a base map and is cropped to
\* its first tile, which shares its word with the cell before it
C26_Witness ==
    /\ mcall.name = "set_line"
    /\ mcall.size = "Base"
    /\ mcall.pos = Pos(15, 1)
    /\ Len(mcall.tiles) = 3
    /\ mem # mcall.was
    /\ tile_of(mem, 30) = OldEntry.left

\* C27: after tiles were written at consecutive offsets of an affine map, the
\* 16-bit word of index w has the tile of offset 2w in its low byte and the
\* tile of offset 2w + 1 in its high byte, for every word the line covers.
C27_WordHoldsEvenOffsetLow ==
    mcall.name = "set_line" =>
        \A offset \in line_offsets :
            /\ offset \div 2 \in DOMAIN mem
            /\ offset % 2 = 0 =>
                  mem[offset \div 2] % 256 = mcall.tiles[offset - line_offset(0) + 1]
            /\ offset % 2 = 1 =>
                  mem[offset \div 2] \div 256 = mcall.tiles[offset - line_offset(0) + 1]

\* a second line, of three tiles from an odd column on: a single tile goes to
\* the high byte of one word and a pair fills the next
C27_Witness ==
    /\ mcall.name = "set_line"
    /\ mcall.made = 2
    /\ mcall.size = "Double"
    /\ mcall.pos = Pos(1, 1)
    /\ mcall.tiles = <<2, 3, 1>>
    /\ mem[16] = OldEntry.left + 2 * 256
    /\ mem[17] = 3 + 1 * 256

\* ---- character base blocks -----------------------------------------------
\* what the unit j of the block cbb holds: the unit of a tileset that the
\* last write reaching j put there, or what was there before every write
unit_of(cells, cbb, j) ==
    IF cbb \in DOMAIN cells /\ \E e \in 1..Len(cells[cbb]) : j < cells[cbb][e].len
    THEN LET e == CHOOSE e \in 1..Len(cells[cbb]) :
                     /\ j < cells[cbb][e].len
                     /\ \A later \in (e + 1)..Len(cells[cbb]) :
                           j >= cells[cbb][later].len
         IN  <<cells[cbb][e].tileset, cells[cbb][e].from + j>>
    ELSE <<0, 0>>

\* the units looked at: around the ends of what the lengths passed reach
unit_probes == {0, 1, 2, CBB_SIZE - 1}

\* C28: load_tileset(slot, data) leaves the i-th chunk of 0x2000 units of
\* data in the character block slot + i for every i with slot + i < 4, drops
\* the chunks with slot + i >= 4 without an error, writes nothing outside
\* the four blocks and leaves the blocks below slot as they were.
C28_LoadTilesetFillsBlocks ==
    mcall.name = "load_tileset" =>
        /\ ~mpanic
        /\ DOMAIN mem \subseteq 0..(CBB_COUNT - 1)
        /\ \A cbb \in 0..(CBB_COUNT - 1), j \in unit_probes :
              unit_of(mem, cbb, j) =
                  IF cbb >= mcall.slot
                     /\ (cbb - mcall.slot) * CBB_SIZE + j < mcall.len
                  THEN <<mcall.tileset, (cbb - mcall.slot) * CBB_SIZE + j>>
                  ELSE unit_of(mcall.was, cbb, j)

\* a tileset longer than the four blocks loaded from the third block on, over
\* another tileset: two chunks are written and three dropped
C28_Witness ==
    /\ mcall.name = "load_tileset"
    /\ mcall.made = 2
    /\ mcall.slot = 2
    /\ mcall.len = CBB_COUNT * CBB_SIZE + 1
    /\ unit_of(mcall.was, 3, 0) # <<0, 0>>
    /\ unit_of(mcall.was, 3, 0)[1] # mcall.tileset
    /\ unit_of(mem, 3, CBB_SIZE - 1) = <<mcall.tileset, 2 * CBB_SIZE - 1>>

\* ---- sprite tile memory --------------------------------------------------
\* the allocator had room for the sprite of the observed call: a gap that
\* holds it, or the units after the last entry
had_room ==
    \/ first_gap_of_size(prev, op.size) # 0
    \/ extent(prev) + op.size <= FullSize

\* C29: load_sprite reserves a span for the sprite's id and tile count,
\* copies the sprite's tiles to the units of that span and returns its
\* offset; without room in the allocator it returns None and writes nothing;
\* for a sprite that holds a span already it returns that span's offset and
\* the allocator stays as it is.
C29_LoadSpriteReservesAndCopies ==
    op.name = "load_sprite" =>
        /\ present(prev, op.id) =>
              blocks = prev /\ ret = offset_of(prev, op.id)
        /\ ~present(prev, op.id) /\ ~had_room => ret = None
        /\ ret = None => mem = mcall.was
        /\ ret # None =>
              /\ ret + op.size <= FullSize
              /\ span_of(blocks, op.id) = [offset |-> ret, size |-> op.size]
              /\ \A t \in 0..(op.size - 1) :
                    ret + t \in DOMAIN mem /\ mem[ret + t] = <<op.id, t>>
              /\ \A u \in DOMAIN mem \ (ret..(ret + op.size - 1)) :
                    u \in DOMAIN mcall.was /\ mem[u] = mcall.was[u]

\* ---- Windowed ------------------------------------------------------------
\* C30: every tile that a Windowed passes to the sink has its column below
\* window.width and its row below window.height, whatever the inner
\* drawable yields.
C30_WindowedStaysInWindow ==
    mcall.name = "for_each_line" =>
        \A l \in 1..Len(mcall.lines) :
            \A k \in 1..Len(mcall.lines[l].tiles) :
                /\ mcall.lines[l].pos.x + (k - 1) < mcall.window.width
                /\ mcall.lines[l].pos.y < mcall.window.height

\* ---- Image ---------------------------------------------------------------
\* C31: for an image of offset o, width w, height h in a tileset of width tw,
\* the slice that Image::set_tiles fills has o + y * tw + x at index
\* y * w + x, for every column x < w and every row y < h, also when h > w.
C31_ImageTilesRowMajor ==
    mcall.name = "image" =>
        \A x \in 0..(mcall.width - 1), y \in 0..(mcall.height - 1) :
            mcall.tiles[y * mcall.width + x + 1] =
                mcall.offset + y * mcall.tileset_width + x

\* ---- sprite tile spans ----------------------------------------------------
\* C32: the offset that a sprite load returns for a sprite of n tiles is a
\* multiple of n, after any sequence of sprite loads and unloads.
C32_SpriteSpanSizeAligned ==
    (op.name = "load_sprite" /\ ret # None) =>
        ret % tile_count(op.id) = 0

\* ---- a failed append ------------------------------------------------------
\* the call insert_sized(id, size) on the entry list b appends a new entry:
\* the id is absent, no gap is large enough and the list has room
appends_entry(b, call) ==
    /\ call.name = "insert_sized"
    /\ ~present(b, call.id)
    /\ first_gap_of_size(b, call.size) = 0
    /\ Len(b) < MAX_BLOCKS

\* C33: when insert_sized appends a new entry for an absent id and
\* offset + size exceeds full_size, the call returns none, the appended Full
\* entry stays in the block list, and the id counts as present afterwards.
C33_FailedAppendLeavesEntry ==
    (appends_entry(prev, op) /\ extent(prev) + op.size > FullSize) =>
        /\ ret = None
        /\ blocks = Append(prev, Full(op.id, op.size))
        /\ present(blocks, op.id)
        /\ offset_of(blocks, op.id) = extent(prev)

\* an append past full_size has returned none and left its entry behind
C33_Witness ==
    /\ appends_entry(prev, op)
    /\ extent(prev) + op.size > FullSize
    /\ ret = None
    /\ Len(blocks) = Len(prev) + 1
    /\ has_id(blocks[Len(blocks)], op.id)

\* ---- a full entry list ----------------------------------------------------
\* the call insert_sized(id, size) on the entry list b needs one more entry:
\* the id is absent and the new entry is appended or splits a larger gap
needs_entry(b, call) ==
    /\ call.name = "insert_sized"
    /\ ~present(b, call.id)
    /\ \/ first_gap_of_size(b, call.size) = 0
       \/ b[first_gap_of_size(b, call.size)].size > call.size

\* C34: when the block list holds MAX_BLOCKS entries, an insert_sized of an
\* absent id that needs one more entry returns none and leaves the allocator
\* as it was: the id is not recorded, no gap shrinks, every other id keeps
\* its offset.
C34_FullListInsertChangesNothing ==
    (needs_entry(prev, op) /\ Len(prev) = MAX_BLOCKS) =>
        /\ ret = None
        /\ blocks = prev

\* ---- an emptied allocator -------------------------------------------------
\* no id holds a span in the entry list b
no_id(b) == \A i \in 1..Len(b) : is_gap(b[i])

\* C35: after every allocated id has been removed, insert_sized(id, n) of a
\* new id with n <= full_size returns Some(0), whatever successful inserts
\* and removes came before.
C35_EmptiedAllocatorIsNew ==
    (op.name = "insert_sized" /\ no_id(prev) /\ op.size <= FullSize) =>
        ret = 0

\* ---- Bitset128 of crate::bitset -------------------------------------------
\* C36: for the Bitset128 with take and free, after any sequence of take and
\* free, first_free returns an index that is not taken, and returns None only
\* when all 128 indices are taken.
C36_HalFirstFreeIsNotTaken ==
    /\ hal_first_free(bits) # None => hal_first_free(bits) \notin bits
    /\ hal_first_free(bits) = None => bits = 0..(INDEX_COUNT - 1)

\* ---- the setters of an object handle --------------------------------------
\* the attribute of each setter of object::Handle, by the fields of the
\* record that hold it: position, shape, visibility, priority, blend mode,
\* mosaic, sprite tile, palette mode
own_fields ==
    [set_x |-> {"x_pos"}, set_y |-> {"y_pos"},
     set_shape |-> {"obj_mode", "obj_size"},
     set_visible |-> {"double_disabled"},
     set_priority |-> {"priority"},
     set_mode |-> {"obj_mode"},
     set_mosaic |-> {"mosaic"},
     set_sprite |-> {"tile_index"},
     set_palette_mode |-> {"use_palbank"}]

\* C37: in the record committed when an object handle is dropped, each
\* attribute has the last value passed to its own setter, whatever other
\* setters were called and in whatever order: set_shape leaves the blend mode
\* of set_mode alone, set_sprite leaves the palette mode of set_palette_mode
\* alone.
C37_ObjectSettersIndependent ==
    (handle.kind = "object" /\ ~handle.live) =>
        \A i \in 1..Len(calls) :
            last_of_setter(i) =>
                \A f \in own_fields[calls[i].name] :
                    oam[f] = object_assigns(calls[i].name, calls[i].arg)[f]

\* ---- the index of set_tile ------------------------------------------------
\* a screen block no write has failed on
fresh_block == [cells |-> <<>>, panic |-> FALSE]

\* C38: for every TextSize and every position inside that size's region, the
\* index x + y * width that set_tile computes is below the 0x400 entries of
\* the screen block: the write of a tile at an in-region cell of a set_tiles
\* call is a write inside the block.
C38_InRegionIndexInsideBlock ==
    mcall.name = "set_tiles" =>
        \A t \in drawn_inside :
            /\ row_major(drawn_cell(t[1], t[2])) < SBB_SIZE
            /\ ~set_tile(fresh_block, mcall.size, EMPTY,
                         drawn_cell(t[1], t[2])).panic

\* ---- the object slots of the Space state ----------------------------------
\* the Slot indices that the player, the bullets and the items own
owned ==
    {space.player}
        \cup {space.bullets[i].slot : i \in 1..Len(space.bullets)}
        \cup {space.items[i].slot : i \in 1..Len(space.items)}

\* C39: in the Space state, after every update and draw pass each reserved
\* object slot is owned by the player, a bullet of the bullet list or an item
\* of the item list; the slot reserved for a spawn that was skipped because
\* its list was full has been given back, so the number of reserved slots is
\* 1 + bullets + items.
C39_ReservedSlotsAreOwned ==
    space.pass \in {"update", "draw"} =>
        /\ bits = owned
        /\ leaked = EmptyBag
        /\ Cardinality(bits) = 1 + Len(space.bullets) + Len(space.items)

====
